---- MODULE Spec2Model ----
(***************************************************************************)
(* Verification model of iceisfun/goeip: the implicit-I/O runtime          *)
(* (pkg/runtime: producer scheduler, watchdog, UDP ingress), the CIP       *)
(* message router (pkg/cip/router.go) and the EtherNet/IP target server    *)
(* (package server).                                                       *)
(*                                                                         *)
(* Time is counted in units of 50 ms.  Byte strings are sequences of       *)
(* integers 0..255; Go slices data[a:b] are written Slice(data, a, b).     *)
(***************************************************************************)
EXTENDS Integers, Sequences, FiniteSets, TLC

\* ------------------------------------------------------------------------
\* Bounds of the model
\* ------------------------------------------------------------------------
MaxTime == 4

MaxWatchTime == 6

\* ------------------------------------------------------------------------
\* Little-endian byte helpers (encoding/binary.LittleEndian)
\* ------------------------------------------------------------------------
Pow2(n) ==
  IF n = 0 THEN 1 ELSE IF n = 1 THEN 2 ELSE IF n = 2 THEN 4
  ELSE IF n = 3 THEN 8 ELSE IF n = 4 THEN 16 ELSE IF n = 5 THEN 32
  ELSE IF n = 6 THEN 64 ELSE IF n = 7 THEN 128 ELSE 256

PutUint16(v) ==
  << v % 256, (v \div 256) % 256 >>

PutUint32(v) ==
  << v % 256, (v \div 256) % 256, (v \div 65536) % 256, (v \div 16777216) % 256 >>

\* data[a:b] of Go, 0-based, b exclusive
Slice(s, a, b) ==
  SubSeq(s, a + 1, b)

\* binary.LittleEndian.Uint16(data[off:off+2])
Uint16(s, off) ==
  s[off + 1] + 256 * s[off + 2]

\* binary.LittleEndian.Uint32(data[off:off+4])
Uint32(s, off) ==
  s[off + 1] + 256 * s[off + 2] + 65536 * s[off + 3] + 16777216 * s[off + 4]

Zeros(n) ==
  [i \in 1..n |-> 0]

\* ------------------------------------------------------------------------
\* CIP general status and service codes (package cip)
\* ------------------------------------------------------------------------
StatusSuccess == 0

StatusConnectionFailure == 1

StatusPathSegmentError == 4

StatusServiceNotSupported == 8

StatusAttributeNotSupported == 20

StatusObjectDoesNotExist == 22

StatusInvalidAttributeValue == 9

ServiceGetAttributeSingle == 14

ServiceSetAttributeSingle == 16

\* ------------------------------------------------------------------------
\* Implicit-I/O runtime: state
\* ------------------------------------------------------------------------
VARIABLES
  now,          \* the clock (time.Now), in units of 50 ms
  io,           \* the IOConnection objects, by ConnectionID
  connections,  \* keys of Runtime.connections
  asmData,      \* AssemblyInstance.Data of each assembly instance
  started,      \* Runtime.Start has launched listenLoop and watchdogLoop
  nextWatchdog, \* the instant of the watchdog ticker's next tick
  lastTick,     \* instant of the last completed checkTimeouts (NoTick: none)
  schedPc,      \* position of Scheduler.processTick
  schedConns,   \* processTick's snapshot of producer connections
  schedCur,     \* the connection processTick is sending for
  recvPc,       \* position of Runtime.handlePacket
  recvConn,     \* handlePacket's conn pointer
  recvPayload,  \* handlePacket's payload slice
  udpOut,       \* per connection: the last two datagrams written to the socket
  sendLog,      \* per connection: the last two values assigned to LastSend
  recvFault     \* the last handlePacket call sliced past the end of its datagram

rtVars ==
  << now, io, connections, asmData, started, nextWatchdog, lastTick,
     schedPc, schedConns, schedCur, recvPc, recvConn, recvPayload, udpOut, sendLog,
     recvFault >>

ConnIDs == {1, 2}

AsmIDs == {100, 101}

\* zero value of time.Time (runtime.go: LastSend of a fresh IOConnection)
ZeroTime == -1

NoTick ==
  ZeroTime

\* ticker period of watchdogLoop: 100 ms = 2 units of 50 ms
WatchdogPeriod == 2

\* time.Since(t): the zero time lies further back than any duration
MaxDuration == 1000000

Since(t) ==
  IF t = ZeroTime THEN MaxDuration ELSE now - t

\* An IOConnection as a test or the connection manager constructs it.
IOConnection(id, rpi, seq, runIdle, remote, asm, mult, prod, cons) ==
  [ ConnectionID  |-> id,
    RPI           |-> rpi,
    SequenceCount |-> seq,
    RunIdleHeader |-> runIdle,
    RemoteAddr    |-> remote,
    Assembly      |-> asm,
    LastReceive   |-> ZeroTime,
    LastSend      |-> ZeroTime,
    TimeoutMult   |-> mult,
    IsProducer    |-> prod,
    IsConsumer    |-> cons ]

\* Connections the scheduler specification starts from (pointer to an
\* assembly instance: <<id>>, nil: << >>).
ProducerFixtures(id) ==
  IF id = 1
    THEN { IOConnection(id, 1, 65534, FALSE, TRUE, <<100>>, 0, TRUE, FALSE),
           IOConnection(id, 2, 0, TRUE, TRUE, <<101>>, 0, TRUE, TRUE) }
    ELSE { IOConnection(id, 1, 65535, FALSE, FALSE, <<100>>, 0, TRUE, FALSE),
           IOConnection(id, 2, 0, FALSE, TRUE, << >>, 0, TRUE, FALSE),
           IOConnection(id, 1, 0, FALSE, TRUE, <<100>>, 0, FALSE, TRUE) }

\* Connections the watchdog specification starts from.
ConsumerFixtures(id) ==
  IF id = 1
    THEN { IOConnection(id, 1, 0, FALSE, TRUE, <<100>>, 0, FALSE, TRUE),
           IOConnection(id, 1, 0, TRUE, TRUE, <<101>>, 1, TRUE, TRUE) }
    ELSE { IOConnection(id, 1, 0, FALSE, TRUE, << >>, 0, FALSE, TRUE),
           IOConnection(id, 1, 0, FALSE, TRUE, <<100>>, 0, TRUE, FALSE) }

AsmInit ==
  (100 :> <<7>>) @@ (101 :> <<8, 9>>)

RtInit(fixtures) ==
  /\ now = 0
  /\ io \in { f \in [ConnIDs -> UNION { fixtures[c] : c \in ConnIDs }] :
                \A c \in ConnIDs : f[c] \in fixtures[c] }
  /\ connections = {}
  /\ asmData = AsmInit
  /\ started = FALSE
  /\ nextWatchdog = 0
  /\ lastTick = NoTick
  /\ schedPc = "idle"
  /\ schedConns = {}
  /\ schedCur = 0
  /\ recvPc = "idle"
  /\ recvConn = 0
  /\ recvPayload = << >>
  /\ udpOut = [c \in ConnIDs |-> << >>]
  /\ sendLog = [c \in ConnIDs |-> << >>]
  /\ recvFault = FALSE

\* keep the last two entries of a log
Last2(log, x) ==
  IF Len(log) < 2 THEN Append(log, x) ELSE << log[2], x >>

\* ------------------------------------------------------------------------
\* Server and router state (declared here so that every action can leave
\* the other components unchanged)
\* ------------------------------------------------------------------------
VARIABLES
  mrReq,        \* the request handed to MessageRouter.Dispatch
  mrOut         \* what Dispatch returned: << >> before the call

mrVars ==
  << mrReq, mrOut >>

VARIABLES
  tcp           \* per accepted TCP connection: the state of handleConnection

srvVars ==
  << tcp >>

VARIABLES
  cm,           \* the ConnectionManager: connections, nextConnID, mu
  cmProc,       \* per goroutine calling ConnectionManager.HandleRequest
  cmLog         \* the connection ids in the order they were allocated

cmVars ==
  << cm, cmProc, cmLog >>

VARIABLES
  asmMu,        \* AssemblyObject.mu: the writer and the readers holding it
  aoProc        \* per goroutine calling AssemblyObject.HandleRequest

aoVars ==
  << asmMu, aoProc >>

\* sync.RWMutex: no writer (0) and no reader
MuFree ==
  [ writer |-> 0, readers |-> {} ]

VARIABLES
  schedRun,       \* the goroutine of Scheduler.run: "none", "wait", "tick", "exited"
  schedStop,      \* Scheduler.stop is closed
  schedTickReady  \* the scheduler's ticker channel holds a tick

lcVars ==
  << schedRun, schedStop, schedTickReady >>

VARIABLES
  sess,           \* the originator's Session: sessionHandle, its transport
  wire,           \* the frames the session sent and the reply headers it read
  sessHist        \* the operations invoked on the session and their outcome

ssVars ==
  << sess, wire, sessHist >>

VARIABLES
  codecIn,        \* a message-router request an originator encodes
  codecOut        \* what the target's request parser made of the bytes

cdVars ==
  << codecIn, codecOut >>

VARIABLES
  listener,       \* the TCP listener of Server.Start: "none", "open", "failed"
  acceptPc,       \* the goroutine of Server.acceptLoop: "none", "accept", "exited"
  accepted,       \* the connections Accept has returned
  acceptErrs,     \* how often Accept has returned an error
  tcpLog          \* per TCP connection: the requests read and replies written

alVars ==
  << listener, acceptPc, accepted, acceptErrs, tcpLog >>

VARIABLES
  lt,             \* Client.ListTags: the call in progress and what it requested
  rc,             \* the ReconnectingClient and the call running on it
  tm,             \* the TagMonitor
  tsub            \* per subscription id: its goroutine and its Stop call

clVars ==
  << lt, rc, tm, tsub >>

\* state of the components that only some specifications drive
extVars ==
  << lcVars, ssVars, cdVars, alVars, clVars >>

vars ==
  << rtVars, mrVars, srvVars, cmVars, aoVars, extVars >>

\* ------------------------------------------------------------------------
\* Runtime.AddConnection / Runtime.RemoveConnection
\* ------------------------------------------------------------------------
\* Each IOConnection object is installed once (a Forward_Open creates a fresh
\* object), so an object that was installed before is not installed again.
AddConnection(c) ==
  /\ c \notin connections
  /\ io[c].LastReceive = ZeroTime
  /\ io' = [io EXCEPT ![c].LastReceive = now]
  /\ connections' = connections \cup {c}
  /\ UNCHANGED << now, asmData, started, nextWatchdog, lastTick, schedPc,
                  schedConns, schedCur, recvPc, recvConn, recvPayload, udpOut, sendLog, mrVars, extVars, srvVars, cmVars, recvFault, aoVars >>

RemoveConnection(c) ==
  /\ c \in connections
  /\ connections' = connections \ {c}
  /\ UNCHANGED << now, io, asmData, started, nextWatchdog, lastTick, schedPc,
                  schedConns, schedCur, recvPc, recvConn, recvPayload, udpOut, sendLog, mrVars, extVars, srvVars, cmVars, recvFault, aoVars >>

\* The clock advances; a started watchdog ticker fires when its tick is due.
Advance(limit) ==
  /\ now < limit
  /\ started => now < nextWatchdog
  /\ now' = now + 1
  /\ UNCHANGED << io, connections, asmData, started, nextWatchdog, lastTick,
                  schedPc, schedConns, schedCur, recvPc, recvConn,
                  recvPayload, udpOut, sendLog, mrVars, extVars, srvVars, cmVars, recvFault, aoVars >>

\* ------------------------------------------------------------------------
\* Scheduler.processTick / Scheduler.sendPacket  (scheduler.go)
\* ------------------------------------------------------------------------
\* scheduler.go:61  "if time.Since(conn.LastSend) < conn.RPI { continue }"
RPIElapsedEarly(conn) ==
  ~ (Since(conn.LastSend) + 1 < conn.RPI)

RPIElapsed(conn) ==
  ~ (Since(conn.LastSend) < conn.RPI)

\* scheduler.go:160  "conn.SequenceCount++" on a uint16
IncSequenceCountNoWrap(seq) ==
  IF seq = 65535 THEN 1 ELSE seq + 1

IncSequenceCount(seq) ==
  (seq + 1) % 65536

\* the datagram sendPacket builds (conn already carries the new count)
BuildFrame(conn, data) ==
  LET dataLen == 2 + (IF conn.RunIdleHeader THEN 4 ELSE 0) + Len(data)
  IN  PutUint16(2)
      \o PutUint16(161) \o PutUint16(4) \o PutUint32(conn.ConnectionID)
      \o PutUint16(177) \o PutUint16(dataLen % 65536)
      \o PutUint16(conn.SequenceCount)
      \o (IF conn.RunIdleHeader THEN PutUint32(1) ELSE << >>)
      \o data

\* scheduler.go:52-56  "if conn.IsProducer { conns = append(conns, conn) }"
ProducersUnfiltered(conns) ==
  conns

Producers(conns) ==
  { c \in conns : io[c].IsProducer }

\* processTick, lines 49-57: snapshot the producers under the read lock
ProcessTickEnter ==
  /\ schedPc = "idle"
  /\ schedConns' = Producers(connections)
  /\ schedPc' = "loop"
  /\ UNCHANGED << now, io, connections, asmData, started, nextWatchdog,
                  lastTick, schedCur, recvPc, recvConn, recvPayload, udpOut,
                  sendLog, mrVars, srvVars, cmVars, recvFault, aoVars >>

\* processTick called directly (as the scheduler tests do)
SchedTick ==
  /\ ProcessTickEnter
  /\ UNCHANGED extVars

\* processTick, lines 59-67: the two "continue" tests for one connection
SchedCheck(c) ==
  /\ schedPc = "loop"
  /\ c \in schedConns
  /\ schedConns' = schedConns \ {c}
  /\ IF RPIElapsed(io[c]) /\ io[c].Assembly # << >>
       THEN schedPc' = "send" /\ schedCur' = c
       ELSE UNCHANGED << schedPc, schedCur >>
  /\ UNCHANGED << now, io, connections, asmData, started, nextWatchdog,
                  lastTick, recvPc, recvConn, recvPayload, udpOut,
                  sendLog, mrVars, extVars, srvVars, cmVars, recvFault, aoVars >>

\* sendPacket, lines 178-180: "if conn.RemoteAddr != nil { WriteToUDP }"
WriteToUDPUnguarded(c, conn, buf) ==
  [udpOut EXCEPT ![c] = Last2(@, buf)]

WriteToUDP(c, conn, buf) ==
  IF conn.RemoteAddr
    THEN [udpOut EXCEPT ![c] = Last2(@, buf)]
    ELSE udpOut

\* sendPacket: count, build, write to the socket when RemoteAddr is set
SchedSend ==
  /\ schedPc = "send"
  /\ LET c    == schedCur
         conn == [io[c] EXCEPT !.SequenceCount = IncSequenceCount(@)]
         buf  == BuildFrame(conn, asmData[conn.Assembly[1]])
     IN  /\ io' = [io EXCEPT ![c] = conn]
         /\ udpOut' = WriteToUDP(c, conn, buf)
  /\ schedPc' = "stamp"
  /\ UNCHANGED << now, connections, asmData, started, nextWatchdog, lastTick,
                  schedConns, schedCur, recvPc, recvConn, recvPayload, sendLog, mrVars, extVars, srvVars, cmVars, recvFault, aoVars >>

\* processTick, line 81: conn.LastSend = time.Now()
SchedStamp ==
  /\ schedPc = "stamp"
  /\ io' = [io EXCEPT ![schedCur].LastSend = now]
  /\ sendLog' = [sendLog EXCEPT ![schedCur] = Last2(@, now)]
  /\ schedPc' = "loop"
  /\ UNCHANGED << now, connections, asmData, started, nextWatchdog, lastTick,
                  schedConns, schedCur, recvPc, recvConn, recvPayload, udpOut, mrVars, extVars, srvVars, cmVars, recvFault, aoVars >>

\* processTick returns when the snapshot is exhausted
SchedDone ==
  /\ schedPc = "loop"
  /\ schedConns = {}
  /\ schedPc' = "idle"
  /\ UNCHANGED << now, io, connections, asmData, started, nextWatchdog,
                  lastTick, schedConns, schedCur, recvPc, recvConn,
                  recvPayload, udpOut, sendLog, mrVars, extVars, srvVars, cmVars, recvFault, aoVars >>

\* ------------------------------------------------------------------------
\* Specification of the producer scheduler
\* ------------------------------------------------------------------------
MrIdle ==
  /\ mrReq = << >>
  /\ mrOut = << >>

SrvIdle ==
  tcp = << >>

CmIdle ==
  /\ cm = << >>
  /\ cmProc = << >>
  /\ cmLog = << >>

AoIdle ==
  /\ asmMu = MuFree
  /\ aoProc = << >>

\* no Scheduler.run goroutine: processTick is driven directly
LcIdle ==
  /\ schedRun = "none"
  /\ schedStop = FALSE
  /\ schedTickReady = FALSE

\* no originator session
SsIdle ==
  /\ sess = << >>
  /\ wire = << >>
  /\ sessHist = << >>

\* no request is being encoded
CdIdle ==
  /\ codecIn = << >>
  /\ codecOut = << >>

\* Server.Start has not been called
AlIdle ==
  /\ listener = "none"
  /\ acceptPc = "none"
  /\ accepted = {}
  /\ acceptErrs = 0
  /\ tcpLog = << >>

\* no client-side call or monitor
ClIdle ==
  /\ lt = << >>
  /\ rc = << >>
  /\ tm = << >>
  /\ tsub = << >>

ExtIdle ==
  /\ LcIdle
  /\ SsIdle
  /\ CdIdle
  /\ AlIdle
  /\ ClIdle

InitScheduler ==
  /\ RtInit([c \in ConnIDs |-> ProducerFixtures(c)])
  /\ ExtIdle
  /\ MrIdle
  /\ SrvIdle
  /\ CmIdle
  /\ AoIdle

NextScheduler ==
  \/ \E c \in ConnIDs : AddConnection(c)
  \/ \E c \in ConnIDs : RemoveConnection(c)
  \/ Advance(MaxTime)
  \/ SchedTick
  \/ \E c \in ConnIDs : SchedCheck(c)
  \/ SchedSend
  \/ SchedStamp
  \/ SchedDone

SpecScheduler ==
  InitScheduler /\ [][NextScheduler]_vars

\* the sequence count a produced datagram carries (offsets 14..15)
FrameSeq(buf) ==
  Uint16(buf, 14)

\* C1: for a producer connection with positive RPI R, two consecutive send
\* events are at least R apart: next.last_send - prev.last_send >= R.
C1_RPIRespected ==
  \A c \in ConnIDs :
    (io[c].RPI > 0 /\ Len(sendLog[c]) = 2)
      => sendLog[c][2] - sendLog[c][1] >= io[c].RPI

\* a connection with RPI 2 has sent twice, exactly one RPI apart
C1_Witness ==
  \E c \in ConnIDs :
    /\ io[c].RPI = 2
    /\ Len(sendLog[c]) = 2
    /\ sendLog[c][2] - sendLog[c][1] = 2

\* C2: the sequence count carried by each produced frame is the count of the
\* previously produced frame of that connection plus 1 modulo 2^16.
C2_SequenceIncrement ==
  \A c \in ConnIDs :
    Len(udpOut[c]) = 2
      => FrameSeq(udpOut[c][2]) = (FrameSeq(udpOut[c][1]) + 1) % 65536

\* a frame carrying 0xFFFF was followed by a frame carrying 0x0000
C2_Witness ==
  \E c \in ConnIDs :
    /\ Len(udpOut[c]) = 2
    /\ FrameSeq(udpOut[c][1]) = 65535
    /\ FrameSeq(udpOut[c][2]) = 0

\* C29: for a due producer connection whose RemoteAddr is absent, a scheduler
\* tick sends no datagram but still increments the connection's
\* SequenceCount by one (modulo 2^16); no other step changes the count.
C29_CountedWithoutAddress ==
  [][ \A c \in ConnIDs :
        ~io[c].RemoteAddr
          => /\ udpOut'[c] = udpOut[c]
             /\ IF schedPc = "send" /\ schedPc' = "stamp" /\ schedCur = c
                  THEN io'[c].SequenceCount = (io[c].SequenceCount + 1) % 65536
                  ELSE io'[c].SequenceCount = io[c].SequenceCount ]_vars

\* a producer without RemoteAddr was due twice: its count went 65535, 0, 1
\* and nothing was written to the socket for it
C29_Witness ==
  \E c \in ConnIDs :
    /\ ~io[c].RemoteAddr
    /\ io[c].IsProducer
    /\ Len(sendLog[c]) = 2
    /\ io[c].SequenceCount = 1
    /\ udpOut[c] = << >>

\* ------------------------------------------------------------------------
\* Runtime.Start, watchdogLoop / checkTimeouts  (runtime.go)
\* ------------------------------------------------------------------------
RtUnchangedByWatchdog ==
  UNCHANGED << now, io, asmData, schedPc, schedConns, schedCur, recvPc,
               recvConn, recvPayload, udpOut, sendLog,
               mrVars, extVars, srvVars, cmVars, recvFault, aoVars >>

\* Start launches listenLoop and watchdogLoop; the ticker's first tick is
\* one period away.
Start ==
  /\ ~started
  /\ started' = TRUE
  /\ nextWatchdog' = now + WatchdogPeriod
  /\ UNCHANGED << connections, lastTick >>
  /\ RtUnchangedByWatchdog

\* runtime.go:111  "mult := uint64(4) << conn.TimeoutMult"
ShiftedMultDoubled(m) ==
  8 * Pow2(m)

ShiftedMult(m) ==
  4 * Pow2(m)

\* runtime.go:112  "timeout := conn.RPI * time.Duration(mult)"
Timeout(conn) ==
  conn.RPI * ShiftedMult(conn.TimeoutMult)

\* runtime.go:94,114: the test that deletes an entry
TimedOutInclusive(conn) ==
  /\ conn.IsConsumer
  /\ Since(conn.LastReceive) >= Timeout(conn)

TimedOut(conn) ==
  /\ conn.IsConsumer
  /\ Since(conn.LastReceive) > Timeout(conn)

\* one tick of watchdogLoop: checkTimeouts under the write lock
WatchdogTick ==
  /\ started
  /\ now = nextWatchdog
  /\ connections' = { c \in connections : ~TimedOut(io[c]) }
  /\ lastTick' = now
  /\ nextWatchdog' = now + WatchdogPeriod
  /\ UNCHANGED started
  /\ RtUnchangedByWatchdog

\* ------------------------------------------------------------------------
\* listenLoop / handlePacket  (runtime.go)
\* ------------------------------------------------------------------------
\* buildIOPacket of the runtime tests: a well-formed two-item frame
BuildIOPacket(connID, data) ==
  PutUint16(2) \o PutUint16(161) \o PutUint16(4) \o PutUint32(connID)
  \o PutUint16(177) \o PutUint16(Len(data)) \o data

Datagrams ==
  { BuildIOPacket(1, <<5>>),
    BuildIOPacket(1, <<1, 0, 0, 0, 6, 6>>),
    BuildIOPacket(2, <<5>>),
    BuildIOPacket(9, <<5>>),
    <<2, 0, 0>>,
    <<2, 0, 161, 0, 4, 0, 1, 0>> }

\* handlePacket lines 146-188 on data = buf[:n] of listenLoop's 2048-byte
\* buffer: the frame is dropped, or yields a connection id and a payload.
\* For 6 <= n < 14 the slice expressions data[6:10] and data[12:14] reach
\* past n but stay within the buffer's capacity (overread: bytes that are
\* not part of the datagram are read), and whatever they read the test
\* "len(data) < offset+int(len2)" with offset = 14 drops the frame.
ParsePacket(data) ==
  IF Len(data) < 6 THEN [ok |-> FALSE, overread |-> FALSE]
  ELSE IF Uint16(data, 0) # 2 THEN [ok |-> FALSE, overread |-> FALSE]
  ELSE IF Uint16(data, 4) # 4 THEN [ok |-> FALSE, overread |-> FALSE]
  ELSE IF Len(data) < 14 THEN [ok |-> FALSE, overread |-> TRUE]
  ELSE LET connID == Uint32(data, 6)
           len2   == Uint16(data, 12)
       IN  IF Len(data) < 14 + len2 THEN [ok |-> FALSE, overread |-> FALSE]
           ELSE [ok |-> TRUE, overread |-> FALSE, connID |-> connID,
                 payload |-> Slice(data, 14, 14 + len2)]

\* AssemblyObject.SetAttributeSingle(instanceID, attrID, data): the new
\* contents of the instances (all of AsmIDs are registered)
SetAttributeSinglePartial(instances, instanceID, attrID, data) ==
  IF instanceID \notin DOMAIN instances THEN instances
  ELSE IF attrID = 3
    THEN [instances EXCEPT ![instanceID] =
            IF Len(data) >= Len(@) THEN Slice(data, 0, Len(@))
            ELSE data \o Slice(@, Len(data), Len(@))]
    ELSE instances

SetAttributeSingle(instances, instanceID, attrID, data) ==
  IF instanceID \notin DOMAIN instances THEN instances
  ELSE IF attrID = 3
    THEN IF Len(data) # Len(instances[instanceID]) THEN instances
         ELSE [instances EXCEPT ![instanceID] = data]
    ELSE instances

\* the error SetAttributeSingle returns: the status of the cip.Error, 0 for nil
SetAttributeSingleErr(instances, instanceID, attrID, data) ==
  IF instanceID \notin DOMAIN instances THEN StatusObjectDoesNotExist
  ELSE IF attrID = 3
    THEN IF Len(data) # Len(instances[instanceID]) THEN StatusInvalidAttributeValue
         ELSE StatusSuccess
    ELSE StatusAttributeNotSupported

\* handlePacket lines 146-209: parse and look the connection up (read lock)
RecvPacket(d) ==
  /\ started
  /\ recvPc = "idle"
  /\ LET p == ParsePacket(d)
     IN
     /\ IF p.ok /\ p.connID \in connections
           THEN /\ recvPc' = "stamp"
                /\ recvConn' = p.connID
                /\ recvPayload' = p.payload
           ELSE UNCHANGED << recvPc, recvConn, recvPayload >>
     /\ recvFault' = p.overread
  /\ UNCHANGED << now, io, connections, asmData, started, nextWatchdog,
                  lastTick, schedPc, schedConns, schedCur, udpOut,
                  sendLog, mrVars, extVars, srvVars, cmVars, aoVars >>

\* runtime.go:216  "conn.LastReceive = time.Now()"
StampLastReceiveAndSend(conn, t) ==
  [conn EXCEPT !.LastReceive = t, !.LastSend = t]

StampLastReceive(conn, t) ==
  [conn EXCEPT !.LastReceive = t]

\* handlePacket lines 214-218: refresh LastReceive under the write lock
RecvStamp ==
  /\ recvPc = "stamp"
  /\ io' = IF recvConn \in connections
             THEN [io EXCEPT ![recvConn] = StampLastReceive(@, now)]
             ELSE io
  /\ recvPc' = "apply"
  /\ UNCHANGED << now, connections, asmData, started, nextWatchdog, lastTick,
                  schedPc, schedConns, schedCur, recvConn, recvPayload, udpOut, sendLog, mrVars, extVars, srvVars, cmVars, recvFault, aoVars >>

\* handlePacket lines 228-268: strip the Run/Idle header, write the assembly
RecvApply ==
  /\ recvPc = "apply"
  /\ LET conn       == io[recvConn]
         dataOffset == IF conn.RunIdleHeader THEN 4 ELSE 0
     IN  IF conn.RunIdleHeader /\ Len(recvPayload) < 4 THEN asmData' = asmData
         ELSE IF conn.Assembly = << >> THEN asmData' = asmData
         ELSE /\ asmMu = MuFree
              /\ asmData' = SetAttributeSingle(asmData, conn.Assembly[1], 3,
                               Slice(recvPayload, dataOffset, Len(recvPayload)))
  /\ recvPc' = "idle"
  /\ UNCHANGED << now, io, connections, started, nextWatchdog, lastTick,
                  schedPc, schedConns, schedCur, recvConn, recvPayload, udpOut, sendLog, mrVars, extVars, srvVars, cmVars, recvFault, aoVars >>

\* ------------------------------------------------------------------------
\* Specification of the watchdog and the UDP receiver
\* ------------------------------------------------------------------------
InitWatchdog ==
  /\ RtInit([c \in ConnIDs |-> ConsumerFixtures(c)])
  /\ ExtIdle
  /\ MrIdle
  /\ SrvIdle
  /\ CmIdle
  /\ AoIdle

NextWatchdog ==
  \/ Start
  \/ \E c \in ConnIDs : AddConnection(c)
  \/ \E c \in ConnIDs : RemoveConnection(c)
  \/ Advance(MaxWatchTime)
  \/ WatchdogTick
  \/ \E d \in Datagrams : RecvPacket(d)
  \/ RecvStamp
  \/ RecvApply

SpecWatchdog ==
  InitWatchdog /\ [][NextWatchdog]_vars

\* the bound the specification states: rpi x (4 << timeout_mult)
SpecTimeout(c) ==
  io[c].RPI * (4 * (2 ^ io[c].TimeoutMult))

Overdue(c, t) ==
  /\ io[c].IsConsumer
  /\ t - io[c].LastReceive > SpecTimeout(c)

\* C3: in a started runtime, a consumer connection that has been silent for
\* more than R x (4 << M) is removed no later than the first watchdog tick
\* following that instant: while its entry is still present no tick has
\* completed since that instant, and the next tick is at most one watchdog
\* period away.
C3_RemovedByNextTick ==
  started =>
    \A c \in connections :
      Overdue(c, now) =>
        /\ lastTick = NoTick \/ ~Overdue(c, lastTick)
        /\ nextWatchdog >= now
        /\ nextWatchdog - now <= WatchdogPeriod
        /\ nextWatchdog - (io[c].LastReceive + SpecTimeout(c)) <= WatchdogPeriod
           \/ lastTick = NoTick

\* a consumer was overdue at the last tick and its entry is gone
C3_Witness ==
  /\ started
  /\ lastTick # NoTick
  /\ \E c \in ConnIDs :
       /\ c \notin connections
       /\ io[c].LastReceive # ZeroTime
       /\ Overdue(c, lastTick)
       /\ lastTick - (io[c].LastReceive + SpecTimeout(c)) <= WatchdogPeriod

\* a step of the watchdog ticker
WatchdogStep ==
  started /\ nextWatchdog' # nextWatchdog

\* C4: a watchdog tick removes a connection if and only if it is a consumer
\* and now - last_receive > rpi x (4 << timeout_mult); a consumer at or below
\* the bound and every non-consumer is kept.
C4_RemovedIffTimedOut ==
  [][ WatchdogStep =>
        \A c \in connections : (c \notin connections') <=> Overdue(c, now) ]_vars

\* after a tick: an overdue consumer is gone, a consumer exactly at its bound
\* and a non-consumer with an older last_receive are still present
C4_Witness ==
  /\ lastTick = now
  /\ \E c \in ConnIDs :
       c \notin connections /\ io[c].LastReceive # ZeroTime /\ Overdue(c, now)
  /\ \E c \in connections :
       ~io[c].IsConsumer /\ now - io[c].LastReceive > SpecTimeout(c)

\* a consumer whose silence equals its bound survived the tick
C4_WitnessAtBound ==
  /\ lastTick = now
  /\ \E c \in connections :
       io[c].IsConsumer /\ now - io[c].LastReceive = SpecTimeout(c)

\* ------------------------------------------------------------------------
\* CIP message router  (router.go)
\* ------------------------------------------------------------------------
\* "req.Service | 0x80" on a USINT
ReplyService(service) ==
  IF service >= 128 THEN service ELSE service + 128

\* A Go pointer or error value: << >> is nil, << v >> is a value.
Nil == << >>

MessageRouterRequest(service, path, data) ==
  [ Service |-> service, RequestPath |-> path, RequestData |-> data ]

MessageRouterResponse(service, status, extStatus, data) ==
  [ Service       |-> service,
    Reserved      |-> 0,
    GeneralStatus |-> status,
    ExtStatusSize |-> Len(extStatus) % 256,
    ExtStatus     |-> extStatus,
    ResponseData  |-> data ]

\* cip.Error{Status, ExtStatus} as an error value
CipError(status, extStatus) ==
  [ cip |-> TRUE, Status |-> status, ExtStatus |-> extStatus ]

\* an error that is not a cip.Error (fmt.Errorf, io.EOF, ...)
OtherError ==
  [ cip |-> FALSE, Status |-> 0, ExtStatus |-> << >> ]

\* The objects registered with the router, as the tests register mock
\* objects: class 0x04 answers with data, class 0x05 fails with a cip.Error
\* carrying extended status, class 0x06 fails with another error, class
\* 0x0100 answers with data.
RegisteredClasses == {4, 5, 6, 256}

\* Object.HandleRequest of the object registered for classID
HandleRequest(classID, service, path, data) ==
  IF classID = 5
    THEN [ data |-> << >>, err |-> << CipError(StatusAttributeNotSupported, <<256, 512>>) >> ]
  ELSE IF classID = 6
    THEN [ data |-> << >>, err |-> << OtherError >> ]
  ELSE [ data |-> <<222, 173>>, err |-> Nil ]

\* router.go:59-87: the leading class segment; ok = FALSE stands for the
\* three "return nil, Error{Status: StatusPathSegmentError}" exits
ParseClassSegment(pathBytes) ==
  IF Len(pathBytes) = 0 THEN [ok |-> FALSE]
  ELSE IF pathBytes[1] = 32
    THEN IF Len(pathBytes) < 2 THEN [ok |-> FALSE]
         ELSE [ok |-> TRUE, classID |-> pathBytes[2],
               remainingPath |-> Slice(pathBytes, 2, Len(pathBytes))]
  ELSE IF pathBytes[1] = 33
    THEN IF Len(pathBytes) < 4 THEN [ok |-> FALSE]
         ELSE [ok |-> TRUE, classID |-> Uint16(pathBytes, 2),
               remainingPath |-> Slice(pathBytes, 4, Len(pathBytes))]
  ELSE [ok |-> FALSE]

\* router.go:93-98: no object is registered for the class
UnknownClassResultAsError(req) ==
  [ resp |-> Nil, err |-> << CipError(StatusObjectDoesNotExist, << >>) >> ]

UnknownClassResult(req) ==
  [ resp |-> << MessageRouterResponse(ReplyService(req.Service),
                                      StatusObjectDoesNotExist, << >>, << >>) >>,
    err  |-> Nil ]

\* router.go:103-124: the response built from what the object returned: a
\* cip.Error gives its status, any other error StatusServiceNotSupported
ObjectResponse(service, r) ==
  IF r.err # Nil
    THEN IF r.err[1].cip
           THEN MessageRouterResponse(ReplyService(service), r.err[1].Status,
                                      r.err[1].ExtStatus, << >>)
           ELSE MessageRouterResponse(ReplyService(service),
                                      StatusServiceNotSupported, << >>, << >>)
    ELSE MessageRouterResponse(ReplyService(service), StatusSuccess, << >>, r.data)

\* MessageRouter.Dispatch: the pair (response, error) it returns
Dispatch(req) ==
  LET seg == ParseClassSegment(req.RequestPath)
  IN  IF ~seg.ok
        THEN [ resp |-> Nil, err |-> << CipError(StatusPathSegmentError, << >>) >> ]
      ELSE IF seg.classID \notin RegisteredClasses
        THEN UnknownClassResult(req)
      ELSE
        LET r == HandleRequest(seg.classID, req.Service, seg.remainingPath,
                               req.RequestData)
        IN  [ resp |-> << ObjectResponse(req.Service, r) >>, err |-> Nil ]

\* the request paths the router specification draws from
RequestPaths ==
  { << >>,
    <<32>>,
    <<32, 4>>,
    <<32, 4, 36, 1, 48, 3>>,
    <<32, 5, 36, 1>>,
    <<32, 6, 36, 1>>,
    <<32, 255, 36, 1>>,
    <<33>>,
    <<33, 0, 4>>,
    <<33, 0, 0, 1, 36, 1>>,
    <<33, 0, 4, 0>>,
    <<33, 0, 255, 255>>,
    <<255, 4>>,
    <<36, 1>> }

Requests ==
  { MessageRouterRequest(s, p, d) :
      s \in {14, 16, 142, 255}, p \in RequestPaths, d \in {<< >>, <<1, 2>>} }

InitRouter ==
  /\ mrReq \in Requests
  /\ mrOut = << >>
  /\ RtInit([c \in ConnIDs |-> {IOConnection(c, 1, 0, FALSE, TRUE, <<100>>, 0, TRUE, TRUE)}])
  /\ ExtIdle
  /\ SrvIdle
  /\ CmIdle
  /\ AoIdle

\* a caller invokes Dispatch on the request
DispatchCall ==
  /\ mrOut = << >>
  /\ mrOut' = << Dispatch(mrReq) >>
  /\ UNCHANGED << mrReq, extVars, rtVars, srvVars, cmVars, aoVars >>

NextRouter ==
  DispatchCall

SpecRouter ==
  InitRouter /\ [][NextRouter]_vars

\* the path starts with a complete 8-bit or 16-bit class segment
HasClassSegment(path) ==
  \/ Len(path) >= 2 /\ path[1] = 32
  \/ Len(path) >= 4 /\ path[1] = 33

\* the class such a path addresses
ClassOf(path) ==
  IF path[1] = 32 THEN path[2] ELSE path[3] + 256 * path[4]

\* C5 as stated: every request passed to Dispatch, whatever its path, gets a
\* message-router response and never an error in place of a response.
C5_AlwaysResponse ==
  mrOut # << >> => (mrOut[1].resp # Nil /\ mrOut[1].err = Nil)

\* C5 as amended: a request whose path starts with a complete class segment
\* always gets a response with service | 0x80 and no error (ObjectDoesNotExist
\* for an unregistered class, a non-zero general_status when the object
\* fails); a request whose path is empty or whose leading class segment is
\* missing, malformed or truncated gets no response but the error
\* PathSegmentError (0x04).
C5_ResponseIffClassSegment ==
  mrOut # << >> =>
    IF HasClassSegment(mrReq.RequestPath)
      THEN /\ mrOut[1].err = Nil
           /\ mrOut[1].resp # Nil
           /\ mrOut[1].resp[1].Service = ReplyService(mrReq.Service)
           /\ ClassOf(mrReq.RequestPath) \notin {4, 256}
                => mrOut[1].resp[1].GeneralStatus # 0
      ELSE /\ mrOut[1].resp = Nil
           /\ mrOut[1].err # Nil
           /\ mrOut[1].err[1].cip
           /\ mrOut[1].err[1].Status = StatusPathSegmentError

\* an unregistered class was answered with ObjectDoesNotExist in a response
C5_Witness ==
  /\ mrOut # << >>
  /\ mrReq.RequestPath = <<32, 255, 36, 1>>
  /\ mrOut[1].err = Nil
  /\ mrOut[1].resp # Nil
  /\ mrOut[1].resp[1].GeneralStatus = StatusObjectDoesNotExist

\* ------------------------------------------------------------------------
\* EtherNet/IP target server  (package server)
\* ------------------------------------------------------------------------
CommandRegisterSession == 101

CommandUnregisterSession == 102

CommandSendRRData == 111

CommandSendUnitData == 112

ItemIDNullAddress == 0

ItemIDConnectedAddress == 161

ItemIDConnectedData == 177

ItemIDUnconnectedMessage == 178

MaxPacketSize == 4096

\* "sessionHandle = 0x01020304 // Static for now, or random"
StaticSessionHandle == 16909060

TcpConns == {1, 2}

\* eip.NewCPFItem
NewCPFItem(typeID, data) ==
  [ TypeID |-> typeID, Length |-> Len(data) % 65536, Data |-> data ]

\* CPFItem.Encode
EncodeItem(item) ==
  PutUint16(item.TypeID) \o PutUint16(item.Length)
  \o (IF item.Length > 0 THEN item.Data ELSE << >>)

RECURSIVE EncodeItems(_)
EncodeItems(items) ==
  IF items = << >> THEN << >>
  ELSE EncodeItem(Head(items)) \o EncodeItems(Tail(items))

\* CommonPacketFormat.Encode of NewCommonPacketFormat(items...)
EncodeCPF(items) ==
  PutUint16(Len(items) % 65536) \o EncodeItems(items)

\* the item loop of DecodeCommonPacketFormat, from byte offset off
RECURSIVE DecodeItems(_, _, _)
DecodeItems(data, off, count) ==
  IF count = 0 THEN [ok |-> TRUE, items |-> << >>]
  ELSE IF Len(data) < off + 4 THEN [ok |-> FALSE, items |-> << >>]
  ELSE LET typeID == Uint16(data, off)
           length == Uint16(data, off + 2)
       IN  IF length > 0 /\ Len(data) < off + 4 + length
             THEN [ok |-> FALSE, items |-> << >>]
           ELSE LET rest == DecodeItems(data, off + 4 + length, count - 1)
                IN  IF ~rest.ok THEN rest
                    ELSE [ok |-> TRUE,
                          items |-> << [ TypeID |-> typeID, Length |-> length,
                                         Data |-> Slice(data, off + 4,
                                                        off + 4 + length) ] >>
                                    \o rest.items]

\* eip.DecodeCommonPacketFormat
DecodeCommonPacketFormat(data) ==
  IF Len(data) < 2 THEN [ok |-> FALSE, items |-> << >>]
  ELSE DecodeItems(data, 2, Uint16(data, 0))

\* CommonPacketFormat.FindItemByType: the first match, or nil
FindItemByType(items, typeID) ==
  LET idx == { i \in 1..Len(items) : items[i].TypeID = typeID }
  IN  IF idx = {} THEN Nil
      ELSE << items[CHOOSE i \in idx : \A j \in idx : i <= j] >>

\* MessageRouterRequest.Encode, as the originator and the tests build a PDU
EncodeRequest(req) ==
  << req.Service, ((Len(req.RequestPath) + 1) \div 2) % 256 >>
  \o req.RequestPath \o req.RequestData

\* The manual request decode of handleSendRRData / handleSendUnitData:
\* service byte, path size in words, then bytes.Reader.Read into a buffer of
\* 2*words bytes (a short read leaves the tail zero; Read on an exhausted
\* reader fails with io.EOF even for an empty buffer), the rest is data.
DecodeRequest(pdu) ==
  IF Len(pdu) < 2 THEN [ok |-> FALSE]
  ELSE IF Len(pdu) = 2 THEN [ok |-> FALSE]
  ELSE LET pathLen == 2 * pdu[2]
           avail   == Len(pdu) - 2
           n       == IF avail < pathLen THEN avail ELSE pathLen
       IN  [ ok  |-> TRUE,
             req |-> MessageRouterRequest(
                       pdu[1],
                       Slice(pdu, 2, 2 + n) \o Zeros(pathLen - n),
                       Slice(pdu, 2 + n, Len(pdu))) ]

RECURSIVE EncodeWords(_)
EncodeWords(ws) ==
  IF ws = << >> THEN << >> ELSE PutUint16(Head(ws)) \o EncodeWords(Tail(ws))

\* the manual response encode of the two handlers
EncodeResponse(resp) ==
  << resp.Service, resp.Reserved, resp.GeneralStatus, resp.ExtStatusSize >>
  \o EncodeWords(resp.ExtStatus) \o resp.ResponseData

\* what a payload handler returns: the reply payload (nil on error), whether
\* it returned an error, and the request it dispatched to the router (nil
\* when it returned before the dispatch)
HandlerFailed(dispatched) ==
  [ respData |-> << >>, err |-> TRUE, dispatched |-> dispatched ]

\* Server.handleSendRRData
handleSendRRData(data) ==
  IF Len(data) < 6 THEN HandlerFailed(Nil)
  ELSE LET cpf == DecodeCommonPacketFormat(Slice(data, 6, Len(data)))
       IN  IF ~cpf.ok THEN HandlerFailed(Nil)
           ELSE LET item == FindItemByType(cpf.items, ItemIDUnconnectedMessage)
                IN  IF item = Nil THEN HandlerFailed(Nil)
                    ELSE LET dec == DecodeRequest(item[1].Data)
                         IN  IF ~dec.ok THEN HandlerFailed(Nil)
                             ELSE LET out == Dispatch(dec.req)
                                  IN  IF out.err # Nil
                                        THEN HandlerFailed(<< dec.req >>)
                                        ELSE [ respData |->
                                                 Zeros(6) \o EncodeCPF(
                                                   << NewCPFItem(ItemIDNullAddress, << >>),
                                                      NewCPFItem(ItemIDUnconnectedMessage,
                                                                 EncodeResponse(out.resp[1])) >>),
                                               err |-> FALSE,
                                               dispatched |-> << dec.req >> ]

\* Server.handleSendUnitData
handleSendUnitData(data) ==
  IF Len(data) < 6 THEN HandlerFailed(Nil)
  ELSE LET cpf == DecodeCommonPacketFormat(Slice(data, 6, Len(data)))
       IN  IF ~cpf.ok THEN HandlerFailed(Nil)
           ELSE LET addrItem == FindItemByType(cpf.items, ItemIDConnectedAddress)
                    dataItem == FindItemByType(cpf.items, ItemIDConnectedData)
                IN  IF addrItem = Nil THEN HandlerFailed(Nil)
                    ELSE IF Len(addrItem[1].Data) < 4 THEN HandlerFailed(Nil)
                    ELSE IF dataItem = Nil THEN HandlerFailed(Nil)
                    ELSE IF Len(dataItem[1].Data) < 2 THEN HandlerFailed(Nil)
                    ELSE LET pdu == Slice(dataItem[1].Data, 2, Len(dataItem[1].Data))
                             dec == DecodeRequest(pdu)
                         IN  IF ~dec.ok THEN HandlerFailed(Nil)
                             ELSE LET out == Dispatch(dec.req)
                                  IN  IF out.err # Nil
                                        THEN HandlerFailed(<< dec.req >>)
                                        ELSE [ respData |->
                                                 Zeros(6) \o EncodeCPF(
                                                   << NewCPFItem(ItemIDConnectedAddress,
                                                                 addrItem[1].Data),
                                                      NewCPFItem(ItemIDConnectedData,
                                                                 Slice(dataItem[1].Data, 0, 2)
                                                                 \o EncodeResponse(out.resp[1])) >>),
                                               err |-> FALSE,
                                               dispatched |-> << dec.req >> ]

\* part_001:73-78  "if dataLen > MaxPacketSize { return }"
OversizeInclusive(dataLen) ==
  dataLen >= MaxPacketSize

Oversize(dataLen) ==
  dataLen > MaxPacketSize

\* part_001:117-119: the default branch of the command switch
UnsupportedCommandCloses(command) ==
  [ close |-> TRUE, status |-> 1 ]

UnsupportedCommand(command) ==
  [ close |-> FALSE, status |-> 1 ]

\* part_001:123-129: the 24-byte reply header
ReplyHeaderNoContext(command, respData, session, status, senderContext) ==
  PutUint16(command) \o PutUint16(Len(respData) % 65536) \o PutUint32(session)
  \o PutUint32(status) \o Zeros(8) \o PutUint32(0)

ReplyHeader(command, respData, session, status, senderContext) ==
  PutUint16(command) \o PutUint16(Len(respData) % 65536) \o PutUint32(session)
  \o PutUint32(status) \o senderContext \o PutUint32(0)

NoReply(close, sessionHandle, dispatched) ==
  [ close |-> close, reply |-> Nil, sessionHandle |-> sessionHandle,
    dispatched |-> dispatched ]

Reply(command, respData, session, status, senderContext, sessionHandle, dispatched) ==
  [ close |-> FALSE,
    reply |-> << [ hdr  |-> ReplyHeader(command, respData, session, status,
                                        senderContext),
                   data |-> respData ] >>,
    sessionHandle |-> sessionHandle,
    dispatched |-> dispatched ]

\* One iteration of the read loop of Server.handleConnection once the header
\* has been read: the parse, the size check and the command switch.  data is
\* the payload the peer sent after the header.
HandleOne(sessionHandle, headerBuf, data) ==
  LET command       == Uint16(headerBuf, 0)
      dataLen       == Uint16(headerBuf, 2)
      session       == Uint32(headerBuf, 4)
      senderContext == Slice(headerBuf, 12, 20)
  IN  IF Oversize(dataLen) THEN NoReply(TRUE, sessionHandle, Nil)
      ELSE IF command = CommandRegisterSession
        THEN Reply(command, <<1, 0, 0, 0>>, StaticSessionHandle, 0,
                   senderContext, StaticSessionHandle, Nil)
      ELSE IF command = CommandUnregisterSession
        THEN NoReply(TRUE, sessionHandle, Nil)
      ELSE IF command = CommandSendRRData
        THEN LET r == handleSendRRData(data)
             IN  Reply(command, r.respData, session, IF r.err THEN 1 ELSE 0,
                       senderContext, sessionHandle, r.dispatched)
      ELSE IF command = CommandSendUnitData
        THEN LET r == handleSendUnitData(data)
             IN  Reply(command, r.respData, session, IF r.err THEN 1 ELSE 0,
                       senderContext, sessionHandle, r.dispatched)
      ELSE LET d == UnsupportedCommand(command)
           IN  IF d.close THEN NoReply(TRUE, sessionHandle, Nil)
               ELSE Reply(command, << >>, session, d.status, senderContext,
                          sessionHandle, Nil)

\* ---- frames a peer sends ----
\* a 24-byte request header as the tests write it
RequestHeader(command, length, session, senderContext) ==
  PutUint16(command) \o PutUint16(length) \o PutUint32(session)
  \o PutUint32(0) \o senderContext \o PutUint32(0)

Frame(command, session, senderContext, data) ==
  [ hdr  |-> RequestHeader(command, Len(data), session, senderContext),
    data |-> data ]

\* a header announcing length bytes; the payload is never read
OversizeFrame(command, length, senderContext) ==
  [ hdr  |-> RequestHeader(command, length, 0, senderContext),
    data |-> << >> ]

CtxZero ==
  Zeros(8)

CtxPattern ==
  <<17, 34, 51, 68, 85, 102, 119, 136>>

\* SendRRData payload: interface handle, timeout, CPF with the request
RRPayload(req) ==
  Zeros(6) \o EncodeCPF(<< NewCPFItem(ItemIDNullAddress, << >>),
                           NewCPFItem(ItemIDUnconnectedMessage, EncodeRequest(req)) >>)

\* SendUnitData payload: connected address and data items
UnitPayload(connID, seq, req) ==
  Zeros(6) \o EncodeCPF(<< NewCPFItem(ItemIDConnectedAddress, PutUint32(connID)),
                           NewCPFItem(ItemIDConnectedData,
                                      PutUint16(seq) \o EncodeRequest(req)) >>)

GetAttr(path) ==
  MessageRouterRequest(14, path, << >>)

RRPayloads ==
  { RRPayload(GetAttr(<<32, 4, 36, 1, 48, 3>>)),
    RRPayload(GetAttr(<<32, 255, 36, 1, 48, 3>>)),
    RRPayload(GetAttr(<<32, 5, 36, 1>>)),
    RRPayload(GetAttr(<<255, 4>>)),
    <<0, 1, 2>>,
    Zeros(6) \o EncodeCPF(<< NewCPFItem(ItemIDNullAddress, << >>) >>),
    Zeros(6) \o <<2, 0, 178, 0, 9, 0, 1>>,
    Zeros(MaxPacketSize) }

UnitPayloads ==
  { UnitPayload(305419896, 1, GetAttr(<<32, 4, 36, 1, 48, 3>>)),
    RRPayload(GetAttr(<<32, 4, 36, 1, 48, 3>>)) }

Frames ==
  { Frame(CommandRegisterSession, 0, ctx, <<1, 0, 0, 0>>) : ctx \in {CtxZero, CtxPattern} }
  \cup { Frame(CommandUnregisterSession, StaticSessionHandle, CtxZero, << >>) }
  \cup { Frame(CommandSendRRData, StaticSessionHandle, CtxPattern, d) : d \in RRPayloads }
  \cup { Frame(CommandSendRRData, 0, CtxZero, RRPayload(GetAttr(<<32, 4, 36, 1, 48, 3>>))) }
  \cup { Frame(CommandSendUnitData, StaticSessionHandle, CtxPattern, d) : d \in UnitPayloads }
  \cup { Frame(65535, 0, CtxPattern, << >>), Frame(0, 0, CtxZero, << >>) }
  \cup { OversizeFrame(CommandSendRRData, n, CtxPattern) : n \in {4097, 5000, 65535} }
  \cup { OversizeFrame(CommandRegisterSession, 4097, CtxZero) }

\* ---- per-connection state of the server ----
TcpInit ==
  [ state         |-> "open",   \* the handler goroutine runs / has returned
    sessionHandle |-> 0,        \* the local sessionHandle
    peerClosed    |-> FALSE,    \* the peer has closed its end
    req           |-> << >>,    \* headerBuf: the last header read
    wasRegistered |-> FALSE,    \* a RegisterSession had been accepted before it
    dispatched    |-> FALSE,    \* that frame was handed to Dispatch
    replied       |-> FALSE,    \* a reply to that header was written
    reply         |-> Nil ]     \* that reply

\* the handler reads one frame, handles it and writes the reply; writeFails:
\* the peer has gone by the time the reply is written (conn.Write fails)
ServeFrame(k, f, writeFails) ==
  /\ tcp[k].state = "open"
  /\ ~tcp[k].peerClosed
  /\ LET r    == HandleOne(tcp[k].sessionHandle, f.hdr, f.data)
         read == [tcp[k] EXCEPT !.req = f.hdr,
                                !.replied = FALSE,
                                !.reply = Nil,
                                !.wasRegistered = (tcp[k].sessionHandle # 0),
                                !.dispatched = (r.dispatched # Nil),
                                !.sessionHandle = r.sessionHandle]
     IN  tcp' = [tcp EXCEPT ![k] =
                   IF r.close THEN [read EXCEPT !.state = "closed"]
                   ELSE IF writeFails
                     THEN [read EXCEPT !.state = "closed", !.peerClosed = TRUE]
                   ELSE [read EXCEPT !.replied = TRUE, !.reply = r.reply]]
  /\ UNCHANGED << rtVars, mrVars, cmVars, aoVars >>

HandleFrame(k, f, writeFails) ==
  /\ ServeFrame(k, f, writeFails)
  /\ UNCHANGED extVars

\* the peer closes after a header that announces a payload: io.ReadFull of
\* the payload fails and the handler returns (part_001:83-85)
HandleFrameCut(k, f) ==
  /\ tcp[k].state = "open"
  /\ ~tcp[k].peerClosed
  /\ Len(f.data) > 0
  /\ tcp' = [tcp EXCEPT ![k] =
               [@ EXCEPT !.req = f.hdr,
                         !.replied = FALSE,
                         !.reply = Nil,
                         !.wasRegistered = (tcp[k].sessionHandle # 0),
                         !.dispatched = FALSE,
                         !.peerClosed = TRUE,
                         !.state = "closed"]]
  /\ UNCHANGED << rtVars, mrVars, extVars, cmVars, aoVars >>

\* the peer closes between frames: io.ReadFull of the header fails
\* (part_001:60-62)
PeerClose(k) ==
  /\ tcp[k].state = "open"
  /\ ~tcp[k].peerClosed
  /\ tcp' = [tcp EXCEPT ![k] = [@ EXCEPT !.peerClosed = TRUE, !.state = "closed"]]
  /\ UNCHANGED << rtVars, mrVars, extVars, cmVars, aoVars >>

InitServer ==
  /\ tcp = [k \in TcpConns |-> TcpInit]
  /\ MrIdle
  /\ CmIdle
  /\ AoIdle
  /\ RtInit([c \in ConnIDs |-> {IOConnection(c, 1, 0, FALSE, TRUE, <<100>>, 0, TRUE, TRUE)}])
  /\ ExtIdle

NextServer ==
  \/ \E k \in TcpConns, f \in Frames, w \in BOOLEAN : HandleFrame(k, f, w)
  \/ \E k \in TcpConns, f \in Frames : HandleFrameCut(k, f)
  \/ \E k \in TcpConns : PeerClose(k)

SpecServer ==
  InitServer /\ [][NextServer]_vars

\* a header has been read on connection k
HasRequest(k) ==
  tcp[k].req # << >>

ReqCommand(k) ==
  Uint16(tcp[k].req, 0)

ReqLength(k) ==
  Uint16(tcp[k].req, 2)

\* C6: on a connection on which no RegisterSession has been accepted yet, a
\* SendRRData or SendUnitData frame is never dispatched to the message router.
C6_NoDispatchBeforeRegister ==
  \A k \in TcpConns :
    (HasRequest(k) /\ ~tcp[k].wasRegistered) => ~tcp[k].dispatched

\* C7: every session handle assigned on RegisterSession is non-zero, and no
\* two TCP connections are ever assigned the same session handle.
C7_UniqueSessionHandle ==
  /\ \A k \in TcpConns :
       (HasRequest(k) /\ tcp[k].replied /\ ReqCommand(k) = CommandRegisterSession)
         => (tcp[k].sessionHandle # 0
             /\ Uint32(tcp[k].reply[1].hdr, 4) = tcp[k].sessionHandle)
  /\ \A k1, k2 \in TcpConns :
       (k1 # k2 /\ tcp[k1].sessionHandle # 0 /\ tcp[k2].sessionHandle # 0)
         => tcp[k1].sessionHandle # tcp[k2].sessionHandle

\* C8: every reply frame carries the 8-byte sender_context of the request it
\* answers, for every command and for success and failure replies alike.
C8_SenderContextEchoed ==
  \A k \in TcpConns :
    (HasRequest(k) /\ tcp[k].replied)
      => Slice(tcp[k].reply[1].hdr, 12, 20) = Slice(tcp[k].req, 12, 20)

\* one connection got a success reply and another a failure reply, both to
\* requests carrying the non-zero context pattern
C8_Witness ==
  \E k1, k2 \in TcpConns :
    /\ HasRequest(k1) /\ tcp[k1].replied
    /\ HasRequest(k2) /\ tcp[k2].replied
    /\ Slice(tcp[k1].req, 12, 20) = CtxPattern
    /\ Slice(tcp[k2].req, 12, 20) = CtxPattern
    /\ Uint32(tcp[k1].reply[1].hdr, 8) = 0
    /\ Uint32(tcp[k2].reply[1].hdr, 8) = 1

\* C9: a header whose length field exceeds 4096 makes the target close the
\* connection in that read cycle without a reply; a length of exactly 4096 is
\* accepted (the frame is handled and answered).
C9_OversizeCloses ==
  \A k \in TcpConns :
    HasRequest(k) =>
      /\ ReqLength(k) > 4096
           => (tcp[k].state = "closed" /\ ~tcp[k].replied)
      /\ (ReqLength(k) = 4096 /\ ~tcp[k].peerClosed)
           => (tcp[k].state = "open" /\ tcp[k].replied)

\* one connection was closed on a 4097-byte announcement after registering, another answered a 4096-byte frame
C9_Witness ==
  \E k1, k2 \in TcpConns :
    /\ HasRequest(k1) /\ ReqLength(k1) = 4097 /\ tcp[k1].wasRegistered
    /\ tcp[k1].state = "closed" /\ ~tcp[k1].replied
    /\ ~tcp[k1].peerClosed
    /\ HasRequest(k2) /\ ReqLength(k2) = 4096
    /\ tcp[k2].state = "open" /\ tcp[k2].replied

\* C10: the target closes a connection on its own initiative only after a
\* header whose length exceeds 4096; after any other frame the connection
\* stays open unless the frame was UnregisterSession or the peer has closed.
C10_ClosesOnlyOnOversize ==
  \A k \in TcpConns :
    tcp[k].state = "closed" =>
      \/ tcp[k].peerClosed
      \/ HasRequest(k) /\ ReqCommand(k) = CommandUnregisterSession
      \/ HasRequest(k) /\ ReqLength(k) > 4096

\* a connection is still open after an unsupported command, another after a
\* payload its handler rejected
C10_Witness ==
  \E k1, k2 \in TcpConns :
    /\ tcp[k1].state = "open" /\ HasRequest(k1)
    /\ ReqCommand(k1) = 65535
    /\ tcp[k2].state = "open" /\ HasRequest(k2)
    /\ ReqCommand(k2) = CommandSendRRData
    /\ tcp[k2].replied
    /\ Uint32(tcp[k2].reply[1].hdr, 8) = 1

\* C11: on a connection on which a RegisterSession has been accepted, every
\* answered frame whose command is not SendRRData, SendUnitData or
\* UnregisterSession is answered with encapsulation status 0x01.
C11_OtherCommandsRejected ==
  \A k \in TcpConns :
    (/\ HasRequest(k) /\ tcp[k].wasRegistered /\ tcp[k].replied
     /\ ReqCommand(k) \notin {CommandSendRRData, CommandSendUnitData,
                               CommandUnregisterSession})
      => Uint32(tcp[k].reply[1].hdr, 8) = 1

\* ------------------------------------------------------------------------
\* Connection Manager object (package connmgr, class 0x06)
\* ------------------------------------------------------------------------
MaxOpens == 3

ServiceForwardClose == 78

ServiceForwardOpen == 84

ServiceLargeForwardOpen == 91

CmProcs == {1, 2}

\* A uint32 is kept as << high 16 bits, low 16 bits >>.
\* binary.Read(r, binary.LittleEndian, &udint)
ReadU32(s, off) ==
  << Uint16(s, off + 2), Uint16(s, off) >>

\* binary.Write(buf, binary.LittleEndian, udint)
WriteU32(v) ==
  PutUint16(v[2]) \o PutUint16(v[1])

\* cm.nextConnID++ on a uint32
Inc32(v) ==
  IF v[2] = 65535 THEN << (v[1] + 1) % 65536, 0 >> ELSE << v[1], v[2] + 1 >>

Less32(a, b) ==
  a[1] < b[1] \/ (a[1] = b[1] /\ a[2] < b[2])

\* NewConnectionManager: nextConnID = 0x80000000, no connection, mu free
CmInit ==
  [ connections |-> << >>, nextConnID |-> << 32768, 0 >>, mu |-> 0 ]

\* r.Read(req.ConnectionPath) on a bytes.Reader positioned at off: io.EOF
\* when nothing is left (even for an empty buffer); a short read leaves the
\* tail of the buffer zero
ReadPath(data, off, words) ==
  IF off >= Len(data) THEN [ ok |-> FALSE, path |-> << >> ]
  ELSE LET n   == 2 * words
           got == IF Len(data) - off < n THEN Len(data) - off ELSE n
       IN  [ ok |-> TRUE, path |-> Slice(data, off, off + got) \o Zeros(n - got) ]

\* the field-by-field decode of HandleForwardOpen (large = FALSE) and
\* HandleLargeForwardOpen (large = TRUE: 32-bit network parameters)
DecodeForwardOpen(data, large) ==
  LET w     == IF large THEN 4 ELSE 2
      fixed == 32 + 2 * w
  IN  IF Len(data) < fixed THEN [ ok |-> FALSE ]
      ELSE LET p == ReadPath(data, fixed, data[fixed])
           IN  IF ~p.ok THEN [ ok |-> FALSE ]
               ELSE [ ok |-> TRUE,
                      OTConnectionID              |-> ReadU32(data, 2),
                      TOConnectionID              |-> ReadU32(data, 6),
                      ConnectionSerialNumber      |-> Uint16(data, 10),
                      VendorID                    |-> Uint16(data, 12),
                      OriginatorSerialNumber      |-> ReadU32(data, 14),
                      ConnectionTimeoutMultiplier |-> data[19],
                      OTRPI                       |-> ReadU32(data, 22),
                      TORPI                       |-> ReadU32(data, 26 + w),
                      TransportTypeTrigger        |-> data[31 + 2 * w],
                      ConnectionPath              |-> p.path ]

\* the field-by-field decode of HandleForwardClose
DecodeForwardClose(data) ==
  IF Len(data) < 12 THEN [ ok |-> FALSE ]
  ELSE LET p == ReadPath(data, 12, data[11])
       IN  IF ~p.ok THEN [ ok |-> FALSE ]
           ELSE [ ok |-> TRUE,
                  ConnectionSerialNumber |-> Uint16(data, 2),
                  VendorID               |-> Uint16(data, 4),
                  OriginatorSerialNumber |-> ReadU32(data, 6),
                  ConnectionPath         |-> p.path ]

\* the 26-byte Forward_Open / Large_Forward_Open success response
ForwardOpenResponse(req, myConnID) ==
  WriteU32(req.OTConnectionID) \o WriteU32(myConnID)
  \o PutUint16(req.ConnectionSerialNumber) \o PutUint16(req.VendorID)
  \o WriteU32(req.OriginatorSerialNumber)
  \o WriteU32(req.OTRPI) \o WriteU32(req.TORPI) \o <<0, 0>>

\* the 10-byte Forward_Close success response
ForwardCloseResponse(req) ==
  PutUint16(req.ConnectionSerialNumber) \o PutUint16(req.VendorID)
  \o WriteU32(req.OriginatorSerialNumber) \o <<0, 0>>

Triad(req) ==
  << req.ConnectionSerialNumber, req.VendorID, req.OriginatorSerialNumber >>

\* ---- requests an originator sends (cmd/scanner encodeForwardOpen) ----
EncodeForwardOpen(otID, serial, vendor, origSerial, mult, otRPI, toRPI, trigger, path, large) ==
  <<10, 14>> \o WriteU32(otID) \o WriteU32(<<0, 0>>)
  \o PutUint16(serial) \o PutUint16(vendor) \o WriteU32(origSerial)
  \o << mult, 0, 0, 0 >>
  \o WriteU32(otRPI) \o (IF large THEN <<8, 0, 0, 72>> ELSE <<8, 72>>)
  \o WriteU32(toRPI) \o (IF large THEN <<8, 0, 0, 72>> ELSE <<8, 72>>)
  \o << trigger, Len(path) \div 2 >> \o path

EncodeForwardClose(serial, vendor, origSerial, path) ==
  <<10, 14>> \o PutUint16(serial) \o PutUint16(vendor) \o WriteU32(origSerial)
  \o << Len(path) \div 2, 0 >> \o path

\* application path: class 0x04, instances 150 and 100
IOPath ==
  <<32, 4, 36, 150, 44, 100>>

\* 100 ms in microseconds (0x000186A0)
RPI100ms ==
  << 1, 34464 >>

CmRequests ==
  { [ service |-> ServiceForwardOpen,
      data |-> EncodeForwardOpen(<<4660, 22136>>, 1, 4919, <<0, 8>>, 1,
                                 RPI100ms, RPI100ms, 1, IOPath, FALSE) ],
    [ service |-> ServiceLargeForwardOpen,
      data |-> EncodeForwardOpen(<<4660, 22137>>, 2, 4919, <<0, 8>>, 2,
                                 RPI100ms, RPI100ms, 1, IOPath, TRUE) ],
    [ service |-> ServiceForwardOpen, data |-> <<10, 14, 1, 0>> ],
    [ service |-> ServiceForwardOpen,
      data |-> Slice(EncodeForwardOpen(<<4660, 22136>>, 1, 4919, <<0, 8>>, 1,
                                       RPI100ms, RPI100ms, 1, IOPath, FALSE),
                     0, 38) ],
    [ service |-> ServiceLargeForwardOpen,
      data |-> Slice(EncodeForwardOpen(<<4660, 22137>>, 2, 4919, <<0, 8>>, 2,
                                       RPI100ms, RPI100ms, 1, IOPath, TRUE),
                     0, 40) ],
    [ service |-> ServiceForwardClose,
      data |-> EncodeForwardClose(1, 4919, <<0, 8>>, IOPath) ],
    [ service |-> ServiceForwardClose,
      data |-> EncodeForwardClose(9, 4919, <<0, 8>>, IOPath) ],
    [ service |-> 82, data |-> << >> ] }

\* ---- one goroutine inside ConnectionManager.HandleRequest ----
CmProcInit ==
  [ pc |-> "idle", service |-> 0, data |-> << >>, req |-> Nil,
    myConnID |-> Nil, resp |-> Nil, err |-> Nil ]

\* cm.mu.Lock() succeeds
LockFreeAlways ==
  TRUE

LockFree ==
  cm.mu = 0

\* Forward_Opens that have not yet incremented the counter
OpensPending ==
  Cardinality({ p \in CmProcs : cmProc[p].pc \in {"lock", "inc"} })

\* HandleRequest is entered: the service switch and the decode of the request
CmCall(p, r) ==
  /\ cmProc[p].pc = "idle"
  /\ LET entered == [CmProcInit EXCEPT !.service = r.service, !.data = r.data]
     IN
     IF r.service \in {ServiceForwardOpen, ServiceLargeForwardOpen}
       THEN LET d == DecodeForwardOpen(r.data, r.service = ServiceLargeForwardOpen)
            IN  /\ cm.nextConnID[2] + OpensPending < MaxOpens
                /\ cmProc' = [cmProc EXCEPT ![p] =
                     IF d.ok
                       THEN [entered EXCEPT !.pc = "lock", !.req = <<d>>]
                       ELSE [entered EXCEPT !.err = << OtherError >>]]
     ELSE IF r.service = ServiceForwardClose
       THEN LET d == DecodeForwardClose(r.data)
            IN  cmProc' = [cmProc EXCEPT ![p] =
                  IF d.ok
                    THEN [entered EXCEPT !.req = <<d>>,
                                         !.resp = << ForwardCloseResponse(d) >>]
                    ELSE [entered EXCEPT !.err = << OtherError >>]]
     ELSE cmProc' = [cmProc EXCEPT ![p] =
            [entered EXCEPT !.err = << CipError(StatusServiceNotSupported, << >>) >>]]
  /\ UNCHANGED << cm, cmLog, rtVars, mrVars, extVars, srvVars, aoVars >>

\* cm.mu.Lock()
CmLock(p) ==
  /\ cmProc[p].pc = "lock"
  /\ LockFree
  /\ cm' = [cm EXCEPT !.mu = p]
  /\ cmProc' = [cmProc EXCEPT ![p].pc = "inc"]
  /\ UNCHANGED << cmLog, rtVars, mrVars, extVars, srvVars, aoVars >>

\* cm.nextConnID++
CmInc(p) ==
  /\ cmProc[p].pc = "inc"
  /\ cm' = [cm EXCEPT !.nextConnID = Inc32(@)]
  /\ cmProc' = [cmProc EXCEPT ![p].pc = "read"]
  /\ UNCHANGED << cmLog, rtVars, mrVars, extVars, srvVars, aoVars >>

\* myConnID := cm.nextConnID
CmRead(p) ==
  /\ cmProc[p].pc = "read"
  /\ cmProc' = [cmProc EXCEPT ![p].pc = "store", ![p].myConnID = << cm.nextConnID >>]
  /\ cmLog' = Append(cmLog, [ id |-> cm.nextConnID, proc |-> p,
                              triad |-> Triad(cmProc[p].req[1]) ])
  /\ UNCHANGED << cm, rtVars, mrVars, extVars, srvVars, aoVars >>

\* cm.connections[myConnID] = conn
CmStore(p) ==
  /\ cmProc[p].pc = "store"
  /\ LET id   == cmProc[p].myConnID[1]
         conn == [ OTConnectionID |-> cmProc[p].req[1].OTConnectionID,
                   TOConnectionID |-> id ]
     IN  cm' = [cm EXCEPT !.connections =
                  [ x \in DOMAIN cm.connections \cup {id} |->
                      IF x = id THEN conn ELSE cm.connections[x] ]]
  /\ cmProc' = [cmProc EXCEPT ![p].pc = "return"]
  /\ UNCHANGED << cmLog, rtVars, mrVars, extVars, srvVars, aoVars >>

\* the response is encoded and returned; the deferred cm.mu.Unlock() runs
CmReturn(p) ==
  /\ cmProc[p].pc = "return"
  /\ cmProc' = [cmProc EXCEPT ![p].pc = "idle",
                              ![p].resp = << ForwardOpenResponse(cmProc[p].req[1],
                                                                 cmProc[p].myConnID[1]) >>]
  /\ cm' = [cm EXCEPT !.mu = 0]
  /\ UNCHANGED << cmLog, rtVars, mrVars, extVars, srvVars, aoVars >>

InitConnMgr ==
  /\ cm = CmInit
  /\ cmProc = [p \in CmProcs |-> CmProcInit]
  /\ cmLog = << >>
  /\ MrIdle
  /\ SrvIdle
  /\ AoIdle
  /\ RtInit([c \in ConnIDs |-> {IOConnection(c, 2, 0, FALSE, TRUE, <<100>>, 1, TRUE, TRUE)}])
  /\ ExtIdle

NextConnMgr ==
  \/ \E p \in CmProcs, r \in CmRequests : CmCall(p, r)
  \/ \E p \in CmProcs : CmLock(p)
  \/ \E p \in CmProcs : CmInc(p)
  \/ \E p \in CmProcs : CmRead(p)
  \/ \E p \in CmProcs : CmStore(p)
  \/ \E p \in CmProcs : CmReturn(p)
  \/ \E c \in ConnIDs : AddConnection(c)
  \/ \E c \in ConnIDs : RemoveConnection(c)

SpecConnMgr ==
  InitConnMgr /\ [][NextConnMgr]_vars

\* the runtime keys its map by the uint32 ConnectionID of the IOConnection
RuntimeKey(c) ==
  << 0, c >>

OpenAnswered(p) ==
  /\ cmProc[p].pc = "idle"
  /\ cmProc[p].service \in {ServiceForwardOpen, ServiceLargeForwardOpen}
  /\ cmProc[p].resp # Nil

\* C12: once a Forward_Open or Large_Forward_Open has been answered with
\* success, the runtime's connection map holds an IOConnection for the
\* allocated connection id, producing and consuming, with the request's
\* timeout multiplier.
C12_InstalledInRuntime ==
  \A p \in CmProcs :
    OpenAnswered(p) =>
      \E c \in connections :
        /\ RuntimeKey(c) = cmProc[p].myConnID[1]
        /\ io[c].IsProducer /\ io[c].IsConsumer
        /\ io[c].TimeoutMult = cmProc[p].req[1].ConnectionTimeoutMultiplier

\* this step answers a Forward_Close of goroutine p with success
CloseAnswered(p) ==
  /\ cmProc[p].pc = "idle"
  /\ cmProc'[p] # cmProc[p]
  /\ cmProc'[p].service = ServiceForwardClose
  /\ cmProc'[p].resp # Nil

\* C13: when a Forward_Close is answered, every connection in the manager's
\* table that was opened with the same (conn_serial, vendor_id,
\* originator_serial) triad is gone from the table and from the runtime's
\* map, and the connections with another triad stay.
C13_RetiredOnForwardClose ==
  [][ \A p \in CmProcs :
        CloseAnswered(p) =>
          \A i \in 1..Len(cmLog) :
            cmLog[i].id \in DOMAIN cm.connections =>
              IF cmLog[i].triad = Triad(cmProc'[p].req[1])
                THEN /\ cmLog[i].id \notin DOMAIN cm'.connections
                     /\ \A c \in connections' : RuntimeKey(c) # cmLog[i].id
                ELSE cmLog[i].id \in DOMAIN cm'.connections ]_vars

\* C14: the connection ids are allocated in strictly increasing order, also
\* when Forward_Opens of several goroutines overlap; every stored connection
\* sits under its own id.
C14_StrictlyIncreasingIDs ==
  /\ \A i, j \in 1..Len(cmLog) :
       i < j => Less32(cmLog[i].id, cmLog[j].id)
  /\ \A x \in DOMAIN cm.connections : cm.connections[x].TOConnectionID = x

\* ids were allocated to both goroutines and by both services, the last one
\* while the other goroutine was waiting for the lock
C14_Witness ==
  /\ Len(cmLog) >= 2
  /\ cmLog[1].proc # cmLog[2].proc
  /\ cmLog[1].triad # cmLog[2].triad
  /\ \E p \in CmProcs : cmProc[p].pc = "lock" /\ cm.mu \notin {0, p}

\* ------------------------------------------------------------------------
\* Specification of the UDP ingress path alone
\* ------------------------------------------------------------------------
IngressDatagrams ==
  { BuildIOPacket(1, <<1, 0, 0, 0, 6, 6>>),
    BuildIOPacket(1, <<0, 0, 0, 0, 5, 5>>),
    BuildIOPacket(1, <<5>>),
    BuildIOPacket(1, <<5, 5, 5>>),
    BuildIOPacket(2, <<4>>),
    BuildIOPacket(9, <<5>>),
    << >>,
    <<2, 0, 0>>,
    <<2, 0, 161, 0, 4, 0, 1, 0>>,
    <<2, 0, 161, 0, 4, 0, 1, 0, 0, 0, 177, 0, 0>>,
    <<1, 0, 161, 0, 4, 0, 1, 0, 0, 0, 177, 0, 1, 0, 5>>,
    <<2, 0, 161, 0, 2, 0, 1, 0, 177, 0, 1, 0, 5, 0>>,
    <<2, 0, 161, 0, 4, 0, 1, 0, 0, 0, 177, 0, 5, 0, 5>> }

InitIngress ==
  /\ RtInit([c \in ConnIDs |-> ConsumerFixtures(c)])
  /\ ExtIdle
  /\ MrIdle
  /\ SrvIdle
  /\ CmIdle
  /\ AoIdle

NextIngress ==
  \/ Start
  \/ \E c \in ConnIDs : AddConnection(c)
  \/ \E c \in ConnIDs : RemoveConnection(c)
  \/ \E d \in IngressDatagrams : RecvPacket(d)
  \/ RecvStamp
  \/ RecvApply

SpecIngress ==
  InitIngress /\ [][NextIngress]_vars

\* C15: on a connection with run_idle_header set, a frame changes the bound
\* assembly's data only if bit 0 of its Run/Idle word is set (Run); an Idle
\* frame never modifies the data.
C15_IdleFrameNotApplied ==
  [][ (/\ recvPc = "apply"
       /\ io[recvConn].RunIdleHeader
       /\ asmData' # asmData)
        => (recvPayload[1] % 2 = 1) ]_vars

\* C16: handling a datagram that is not a well-formed two-item frame changes
\* no connection and no assembly and reads nothing past the end of the
\* datagram.
C16_MalformedDroppedSilently ==
  ~recvFault

\* the scheduler touched connection c in this step: a new sequence count, a
\* new LastSend or a datagram written
SchedTouched(c) ==
  \/ io'[c].SequenceCount # io[c].SequenceCount
  \/ io'[c].LastSend # io[c].LastSend
  \/ udpOut'[c] # udpOut[c]
  \/ sendLog'[c] # sendLog[c]

\* C17: a scheduler tick increments sequence_count, sets last_send or emits
\* a frame only for a connection that is a producer, has an assembly bound
\* and whose RPI has elapsed since last_send; every other connection is left
\* untouched.
C17_OnlyDueProducersTouched ==
  [][ \A c \in ConnIDs :
        SchedTouched(c) =>
          /\ io[c].IsProducer
          /\ io[c].Assembly # << >>
          /\ Since(io[c].LastSend) >= io[c].RPI ]_vars

\* a tick has sent for connection 1 and finished while connection 2,
\* installed and either consumer-only or without assembly, is untouched
C17_Witness ==
  /\ schedPc = "idle"
  /\ Len(sendLog[1]) >= 1
  /\ connections = {1, 2}
  /\ ~io[2].IsProducer \/ io[2].Assembly = << >>
  /\ io[2].LastSend = ZeroTime
  /\ udpOut[2] = << >>

\* ------------------------------------------------------------------------
\* Assembly object (package assembly, class 0x04) and the tasks that touch
\* an assembly instance: explicit requests, UDP ingress, producer scheduler
\* ------------------------------------------------------------------------
MaxTaskTime == 1

AoProcs == {1}

\* AssemblyObject.HandleRequest, the path decode and the service switch: the
\* status of the cip.Error it returns before calling Get/SetAttributeSingle
\* (0: none), the instance and the attribute
ParseAssemblyRequest(service, pathBytes) ==
  LET fail == [ err |-> StatusPathSegmentError, instanceID |-> 0, attrID |-> 0 ]
  IN  IF Len(pathBytes) = 0 THEN fail
      ELSE IF pathBytes[1] \notin {36, 37} THEN fail
      ELSE IF pathBytes[1] = 36 /\ Len(pathBytes) < 2 THEN fail
      ELSE IF pathBytes[1] = 37 /\ Len(pathBytes) < 4 THEN fail
      ELSE
        LET instanceID == IF pathBytes[1] = 36 THEN pathBytes[2]
                          ELSE Uint16(pathBytes, 2)
            rest       == IF pathBytes[1] = 36
                            THEN Slice(pathBytes, 2, Len(pathBytes))
                            ELSE Slice(pathBytes, 4, Len(pathBytes))
        IN  IF Len(rest) > 0 /\ rest[1] = 48 /\ Len(rest) < 2 THEN fail
            ELSE IF Len(rest) > 0 /\ rest[1] = 49 /\ Len(rest) < 4 THEN fail
            ELSE
              LET attrID == IF Len(rest) > 0 /\ rest[1] = 48 THEN rest[2]
                            ELSE IF Len(rest) > 0 /\ rest[1] = 49 THEN Uint16(rest, 2)
                            ELSE 0
              IN  IF service \notin {ServiceGetAttributeSingle, ServiceSetAttributeSingle}
                    THEN [ err |-> StatusServiceNotSupported,
                           instanceID |-> instanceID, attrID |-> attrID ]
                  ELSE IF attrID = 0 THEN fail
                  ELSE [ err |-> 0, instanceID |-> instanceID, attrID |-> attrID ]

\* AssemblyObject.GetAttributeSingle: a copy of the data, or the error status
GetAttributeSingle(instances, instanceID, attrID) ==
  IF instanceID \notin DOMAIN instances
    THEN [ data |-> Nil, err |-> StatusObjectDoesNotExist ]
  ELSE IF attrID = 3
    THEN [ data |-> << instances[instanceID] >>, err |-> StatusSuccess ]
  ELSE [ data |-> Nil, err |-> StatusAttributeNotSupported ]

\* requests as the router hands them over (class segment stripped)
AoRequests ==
  { [ service |-> ServiceGetAttributeSingle, path |-> <<36, 100, 48, 3>>, data |-> << >> ],
    [ service |-> ServiceGetAttributeSingle, path |-> <<37, 0, 100, 0, 49, 0, 4, 0>>, data |-> << >> ],
    [ service |-> ServiceSetAttributeSingle, path |-> <<36, 100, 48, 3>>, data |-> <<3>> ],
    [ service |-> ServiceSetAttributeSingle, path |-> <<36, 100, 48, 3>>, data |-> <<3, 3>> ],
    [ service |-> ServiceSetAttributeSingle, path |-> <<36, 102, 48, 3>>, data |-> <<3>> ],
    [ service |-> ServiceSetAttributeSingle, path |-> <<36, 100>>, data |-> <<3>> ],
    [ service |-> 1, path |-> <<36, 100, 48, 3>>, data |-> << >> ] }

AoProcInit ==
  [ pc |-> "idle", service |-> 0, instanceID |-> 0, attrID |-> 0,
    data |-> << >>, resp |-> Nil, status |-> 0 ]

\* everything of the runtime but the assembly data
RtUnchangedButAsm ==
  UNCHANGED << now, io, connections, started, nextWatchdog, lastTick, schedPc,
               schedConns, schedCur, recvPc, recvConn, recvPayload, udpOut,
               sendLog, recvFault >>

\* HandleRequest is entered: path decode and service switch
AoCall(p, r) ==
  /\ aoProc[p].pc = "idle"
  /\ LET q == ParseAssemblyRequest(r.service, r.path)
     IN  aoProc' = [aoProc EXCEPT ![p] =
           IF q.err = 0
             THEN [ pc |-> "lock", service |-> r.service,
                    instanceID |-> q.instanceID, attrID |-> q.attrID,
                    data |-> r.data, resp |-> Nil, status |-> 0 ]
             ELSE [AoProcInit EXCEPT !.status = q.err]]
  /\ UNCHANGED << asmMu, asmData, mrVars, extVars, srvVars, cmVars >>
  /\ RtUnchangedButAsm

\* ao.mu.RLock() of GetAttributeSingle, ao.mu.Lock() of SetAttributeSingle
AoLock(p) ==
  /\ aoProc[p].pc = "lock"
  /\ IF aoProc[p].service = ServiceGetAttributeSingle
       THEN /\ asmMu.writer = 0
            /\ asmMu' = [asmMu EXCEPT !.readers = @ \cup {p}]
       ELSE /\ asmMu = MuFree
            /\ asmMu' = [asmMu EXCEPT !.writer = p]
  /\ aoProc' = [aoProc EXCEPT ![p].pc = "body"]
  /\ UNCHANGED << asmData, mrVars, extVars, srvVars, cmVars >>
  /\ RtUnchangedButAsm

\* the body of Get/SetAttributeSingle, run with the lock held
AoBody(p) ==
  /\ aoProc[p].pc = "body"
  /\ IF aoProc[p].service = ServiceGetAttributeSingle
       THEN LET g == GetAttributeSingle(asmData, aoProc[p].instanceID, aoProc[p].attrID)
            IN  /\ aoProc' = [aoProc EXCEPT ![p].pc = "unlock",
                                            ![p].resp = g.data,
                                            ![p].status = g.err]
                /\ asmData' = asmData
       ELSE /\ asmData' = SetAttributeSingle(asmData, aoProc[p].instanceID,
                                             aoProc[p].attrID, aoProc[p].data)
            /\ aoProc' = [aoProc EXCEPT ![p].pc = "unlock",
                            ![p].status = SetAttributeSingleErr(asmData,
                               aoProc[p].instanceID, aoProc[p].attrID, aoProc[p].data)]
  /\ UNCHANGED << asmMu, mrVars, extVars, srvVars, cmVars >>
  /\ RtUnchangedButAsm

\* the deferred ao.mu.RUnlock() / ao.mu.Unlock(); HandleRequest returns
AoUnlock(p) ==
  /\ aoProc[p].pc = "unlock"
  /\ asmMu' = IF asmMu.writer = p THEN [asmMu EXCEPT !.writer = 0]
              ELSE [asmMu EXCEPT !.readers = @ \ {p}]
  /\ aoProc' = [aoProc EXCEPT ![p] = [AoProcInit EXCEPT !.resp = aoProc[p].resp,
                                                          !.status = aoProc[p].status]]
  /\ UNCHANGED << asmData, mrVars, extVars, srvVars, cmVars >>
  /\ RtUnchangedButAsm

\* connections bound to the two registered assemblies
AssemblyFixtures(id) ==
  IF id = 1
    THEN { IOConnection(id, 1, 0, FALSE, TRUE, <<100>>, 0, TRUE, TRUE) }
    ELSE { IOConnection(id, 1, 0, TRUE, TRUE, <<101>>, 0, FALSE, TRUE) }

AsmDatagrams ==
  { BuildIOPacket(1, <<5>>),
    BuildIOPacket(1, <<5, 5, 5>>) }

InitAssembly ==
  /\ RtInit([c \in ConnIDs |-> AssemblyFixtures(c)])
  /\ ExtIdle
  /\ asmMu = MuFree
  /\ aoProc = [p \in AoProcs |-> AoProcInit]
  /\ MrIdle
  /\ SrvIdle
  /\ CmIdle

NextAssembly ==
  \/ \E p \in AoProcs, r \in AoRequests : AoCall(p, r)
  \/ \E p \in AoProcs : AoLock(p)
  \/ \E p \in AoProcs : AoBody(p)
  \/ \E p \in AoProcs : AoUnlock(p)
  \/ Start
  \/ \E c \in ConnIDs : AddConnection(c)
  \/ \E d \in AsmDatagrams : RecvPacket(d)
  \/ RecvStamp
  \/ RecvApply
  \/ SchedTick
  \/ \E c \in ConnIDs : SchedCheck(c)
  \/ SchedSend
  \/ SchedStamp
  \/ SchedDone
  \/ Advance(MaxTaskTime)

SpecAssembly ==
  InitAssembly /\ [][NextAssembly]_vars

\* the per-connection fields no task writes once the connection is installed
ReadOnlyFields ==
  { "ConnectionID", "RPI", "RunIdleHeader", "RemoteAddr", "Assembly",
    "TimeoutMult", "IsProducer", "IsConsumer" }

\* C18: once a connection is installed in the runtime, its SequenceCount and
\* LastSend change only in a step of the scheduler working on that
\* connection, its LastReceive only in the receiver's stamp for that
\* connection, and no other field of it changes at all.
C18_SingleWriterPerField ==
  [][ \A c \in connections :
        /\ io'[c].SequenceCount # io[c].SequenceCount
             => (schedPc = "send" /\ schedCur = c /\ schedPc' = "stamp"
                   /\ recvPc' = recvPc /\ aoProc' = aoProc)
        /\ io'[c].LastSend # io[c].LastSend
             => (schedPc = "stamp" /\ schedCur = c /\ schedPc' = "loop"
                   /\ recvPc' = recvPc /\ aoProc' = aoProc)
        /\ io'[c].LastReceive # io[c].LastReceive
             => (recvPc = "stamp" /\ recvConn = c /\ recvPc' = "apply"
                   /\ schedPc' = schedPc /\ aoProc' = aoProc)
        /\ \A f \in ReadOnlyFields : io'[c][f] = io[c][f] ]_vars

\* connection 1 was installed and sent at time 0 (count 0 -> 1), and the
\* receiver refreshed its LastReceive at time 1
C18_Witness ==
  /\ 1 \in connections
  /\ io[1].LastSend = 0
  /\ io[1].SequenceCount = 1
  /\ io[1].LastReceive = 1
  /\ recvConn = 1

\* C19: every read and write of an assembly's data bytes happens under the
\* assembly object's lock; in particular the scheduler's copy of the data
\* into a frame never runs while another task holds the write lock.
C19_SchedulerReadsUnderLock ==
  [][ (schedPc = "send" /\ schedPc' = "stamp") => asmMu.writer = 0 ]_vars

\* the bytes a UDP write hands to SetAttributeSingle
IngressData(conn, payload) ==
  Slice(payload, IF conn.RunIdleHeader THEN 4 ELSE 0, Len(payload))

\* C20: a write to attribute 3 whose length differs from the registered
\* length of the instance, by Set_Attribute_Single or by the UDP ingress
\* path, gets InvalidAttributeValue (0x09) and leaves the data unchanged.
C20_WrongLengthRejected ==
  [][ /\ \A p \in DOMAIN aoProc :
           ( /\ aoProc[p].pc = "body"
             /\ aoProc'[p].pc = "unlock"
             /\ aoProc[p].service = ServiceSetAttributeSingle
             /\ aoProc[p].attrID = 3
             /\ aoProc[p].instanceID \in DOMAIN asmData
             /\ Len(aoProc[p].data) # Len(asmData[aoProc[p].instanceID]) )
           => ( /\ aoProc'[p].status = StatusInvalidAttributeValue
                /\ asmData' = asmData )
      /\ ( /\ recvPc = "apply"
           /\ recvPc' = "idle"
           /\ io[recvConn].Assembly # << >>
           /\ Len(recvPayload) >= (IF io[recvConn].RunIdleHeader THEN 4 ELSE 0)
           /\ Len(IngressData(io[recvConn], recvPayload))
                # Len(asmData[io[recvConn].Assembly[1]]) )
           => ( /\ SetAttributeSingleErr(asmData, io[recvConn].Assembly[1], 3,
                      IngressData(io[recvConn], recvPayload))
                    = StatusInvalidAttributeValue
                /\ asmData' = asmData ) ]_vars

\* an explicit Set of two bytes to the one-byte instance 100 returned 0x09,
\* a three-byte datagram for the same instance went through the ingress
\* path, and the instance still holds a one-byte value
C20_Witness ==
  /\ \E p \in DOMAIN aoProc :
       aoProc[p].pc = "idle" /\ aoProc[p].status = StatusInvalidAttributeValue
  /\ recvPc = "idle"
  /\ recvConn = 1
  /\ recvPayload = <<5, 5, 5>>
  /\ Len(asmData[100]) = 1

\* ------------------------------------------------------------------------
\* Task lifecycle: Scheduler.Start / Stop / run  (scheduler.go:23-45),
\* Runtime.Start and watchdogLoop  (runtime.go:45-86)
\* ------------------------------------------------------------------------
MaxLifeTime == 6

\* everything of the runtime, and the other components
RtUnchangedByLifecycle ==
  UNCHANGED << rtVars, mrVars, srvVars, cmVars, aoVars, ssVars, cdVars, alVars, clVars >>

\* Scheduler.Start: "go s.run()"; run creates its 5 ms ticker
SchedulerStart ==
  /\ schedRun = "none"
  /\ schedRun' = "wait"
  /\ UNCHANGED << schedStop, schedTickReady >>
  /\ RtUnchangedByLifecycle

\* Scheduler.Stop: "close(s.stop)" (a second close would panic)
SchedulerStop ==
  /\ ~schedStop
  /\ schedStop' = TRUE
  /\ UNCHANGED << schedRun, schedTickReady >>
  /\ RtUnchangedByLifecycle

\* the 5 ms ticker delivers a tick into its one-slot channel; 5 ms is below
\* the resolution of the clock, so a tick can arrive at any moment
SchedTickerFire ==
  /\ schedRun \in {"wait", "tick"}
  /\ ~schedTickReady
  /\ schedTickReady' = TRUE
  /\ UNCHANGED << schedRun, schedStop >>
  /\ RtUnchangedByLifecycle

\* run, "case <-ticker.C: s.processTick()": select may take this case
\* whenever a tick is ready, also when s.stop is closed as well
RunTick ==
  /\ schedRun = "wait"
  /\ schedTickReady
  /\ schedTickReady' = FALSE
  /\ schedRun' = "tick"
  /\ UNCHANGED << schedStop, ssVars, cdVars, alVars, clVars >>
  /\ ProcessTickEnter

\* processTick returned: back to the select
RunLoop ==
  /\ schedRun = "tick"
  /\ schedPc = "idle"
  /\ schedRun' = "wait"
  /\ UNCHANGED << schedStop, schedTickReady >>
  /\ RtUnchangedByLifecycle

\* run, "case <-s.stop: return"
RunReturn ==
  /\ schedRun = "wait"
  /\ schedStop
  /\ schedRun' = "exited"
  /\ UNCHANGED << schedStop, schedTickReady >>
  /\ RtUnchangedByLifecycle

\* a producer and a consumer, as an adapter's Forward_Open pair
LifecycleFixtures(id) ==
  IF id = 1
    THEN { IOConnection(id, 2, 0, TRUE, TRUE, <<100>>, 0, TRUE, FALSE) }
    ELSE { IOConnection(id, 1, 0, FALSE, TRUE, <<101>>, 0, FALSE, TRUE) }

InitLifecycle ==
  /\ RtInit([c \in ConnIDs |-> LifecycleFixtures(c)])
  /\ ExtIdle
  /\ MrIdle
  /\ SrvIdle
  /\ CmIdle
  /\ AoIdle

NextLifecycle ==
  \/ Start
  \/ \E c \in ConnIDs : AddConnection(c)
  \/ Advance(MaxLifeTime)
  \/ WatchdogTick
  \/ SchedulerStart
  \/ SchedulerStop
  \/ SchedTickerFire
  \/ RunTick
  \/ \E c \in ConnIDs : SchedCheck(c)
  \/ SchedSend
  \/ SchedStamp
  \/ SchedDone
  \/ RunLoop
  \/ RunReturn

SpecLifecycle ==
  InitLifecycle /\ [][NextLifecycle]_vars

\* The tasks the runtime itself runs are scheduled fairly: the clock, the
\* watchdog ticker, and the scheduler's goroutine once it exists.  Nothing
\* in the runtime calls Scheduler.Start, so that call has no fairness.
SpecLifecycleFair ==
  /\ SpecLifecycle
  /\ WF_vars(Advance(MaxLifeTime))
  /\ WF_vars(WatchdogTick)
  /\ WF_vars(SchedTickerFire)
  /\ WF_vars(RunTick)
  /\ WF_vars(\E c \in ConnIDs : SchedCheck(c))
  /\ WF_vars(SchedSend)
  /\ WF_vars(SchedStamp)
  /\ WF_vars(SchedDone)
  /\ WF_vars(RunLoop)
  /\ WF_vars(RunReturn)

\* C21: once stop() has been requested, the scheduler loop starts no further
\* processTick (hence no further sends) and the watchdog loop removes no
\* further connection.
C21_StopHaltsLoops ==
  [][ schedStop =>
        /\ ~(schedRun = "wait" /\ schedRun' = "tick")
        /\ (lastTick' # lastTick => connections' = connections) ]_vars

\* C22: in a started runtime that is never stopped, a producer connection
\* with an assembly bound eventually has a frame produced.
C22_ProducerEventuallyServed ==
  \/ <>schedStop
  \/ \A c \in ConnIDs :
       (started /\ c \in connections /\ io[c].IsProducer /\ io[c].Assembly # << >>)
         ~> (Len(udpOut[c]) > 0)

\* ------------------------------------------------------------------------
\* Originator session  (pkg/session/session.go, pkg/transport/tcp.go)
\* ------------------------------------------------------------------------
MaxSessOps == 4

\* session handles a target may put in a reply header
ReplyHandles == {7, 9}

\* what Transport.Receive can deliver: a reply, or nothing (an I/O error:
\* the connection failed or ended inside the header or the data)
RegisterReplies ==
  [ status : {0, 1}, handle : ReplyHandles, data : { <<1, 0, 0, 0>> } ]

RRReplies ==
  [ status : {0, 1}, handle : {7},
    data : { Zeros(6) \o EncodeCPF(<< NewCPFItem(ItemIDNullAddress, << >>),
                                      NewCPFItem(ItemIDUnconnectedMessage,
                                                 <<142, 0, 0, 0>>) >>),
             <<0, 0, 0>>,
             Zeros(6) \o <<2, 0, 0, 0>>,
             Zeros(6) \o EncodeCPF(<< NewCPFItem(ItemIDNullAddress, << >>) >>) } ]

\* NewSession over a connected transport
SessInit ==
  [ sessionHandle |-> 0, conn |-> "open" ]

SessHistInit ==
  [ ops |-> 0, op |-> "none", err |-> FALSE, failed |-> FALSE ]

\* TCPTransport.Send: on a closed connection the write fails; otherwise it
\* may fail (the connection is then broken) or put the frame on the wire
Send(t, cmd, data, sessionHandle, fails) ==
  IF t.conn = "closed" \/ fails
    THEN [ err |-> TRUE, frames |-> << >>,
           conn |-> IF t.conn = "closed" THEN "closed" ELSE "broken" ]
    ELSE [ err |-> FALSE,
           frames |-> << [ dir |-> "out", cmd |-> cmd, handle |-> sessionHandle,
                           status |-> 0 ] >>,
           conn |-> t.conn ]

\* TCPTransport.Receive within operation cmd: a reply (given as << r >>) on
\* an open connection, an error otherwise
Receive(conn, cmd, reply) ==
  IF conn # "open" \/ reply = Nil
    THEN [ err |-> TRUE, frames |-> << >>,
           conn |-> IF conn = "open" THEN "broken" ELSE conn ]
    ELSE [ err |-> FALSE,
           frames |-> << [ dir |-> "in", cmd |-> cmd, handle |-> reply[1].handle,
                           status |-> reply[1].status ] >>,
           conn |-> conn ]

\* SendRRData, lines 108-125: strip the 6-byte prefix, decode the CPF, find
\* the unconnected data item
ParseRRReply(respData) ==
  IF Len(respData) < 6 THEN [ err |-> TRUE, data |-> << >> ]
  ELSE LET cpf == DecodeCommonPacketFormat(Slice(respData, 6, Len(respData)))
       IN  IF ~cpf.ok THEN [ err |-> TRUE, data |-> << >> ]
           ELSE LET item == FindItemByType(cpf.items, ItemIDUnconnectedMessage)
                IN  IF item = Nil THEN [ err |-> TRUE, data |-> << >> ]
                    ELSE [ err |-> FALSE, data |-> item[1].Data ]

SessUnchanged ==
  UNCHANGED << rtVars, mrVars, srvVars, cmVars, aoVars, lcVars, cdVars, alVars, clVars >>

\* the record of one finished operation; transport: it ended in a transport
\* error (send or receive failure, malformed reply)
Finished(op, err, transport) ==
  [ ops |-> sessHist.ops + 1, op |-> op, err |-> err,
    failed |-> sessHist.failed \/ transport ]

\* the handle Register leaves in the session
RegisterKeepsHandle(s, header) ==
  s.sessionHandle

RegisterStoresHandle(s, header) ==
  header.handle

\* Session.Register
Register(fails, reply) ==
  /\ sessHist.ops < MaxSessOps
  /\ LET snd == Send(sess, CommandRegisterSession, <<1, 0, 0, 0>>, 0, fails)
         rcv == Receive(snd.conn, CommandRegisterSession, reply)
     IN  IF snd.err
           THEN /\ sess' = [sess EXCEPT !.conn = snd.conn]
                /\ wire' = wire
                /\ sessHist' = Finished("Register", TRUE, TRUE)
         ELSE IF rcv.err
           THEN /\ sess' = [sess EXCEPT !.conn = rcv.conn]
                /\ wire' = wire \o snd.frames
                /\ sessHist' = Finished("Register", TRUE, TRUE)
         ELSE IF reply[1].status # 0
           THEN /\ sess' = sess
                /\ wire' = wire \o snd.frames \o rcv.frames
                /\ sessHist' = Finished("Register", TRUE, FALSE)
         ELSE /\ sess' = [sess EXCEPT
                            !.sessionHandle = RegisterStoresHandle(sess, reply[1])]
              /\ wire' = wire \o snd.frames \o rcv.frames
              /\ sessHist' = Finished("Register", FALSE, FALSE)
  /\ SessUnchanged

\* Session.Unregister
Unregister(fails) ==
  /\ sessHist.ops < MaxSessOps
  /\ LET snd == Send(sess, CommandUnregisterSession, << >>, sess.sessionHandle, fails)
     IN  /\ sess' = [sess EXCEPT !.conn = snd.conn]
         /\ wire' = wire \o snd.frames
         /\ sessHist' = Finished("Unregister", snd.err, snd.err)
  /\ SessUnchanged

\* Session.Close
Close ==
  /\ sessHist.ops < MaxSessOps
  /\ sess' = [sess EXCEPT !.conn = "closed"]
  /\ wire' = wire
  /\ sessHist' = Finished("Close", FALSE, FALSE)
  /\ SessUnchanged

\* Session.SendRRData
SendRRData(fails, reply) ==
  /\ sessHist.ops < MaxSessOps
  /\ LET snd == Send(sess, CommandSendRRData, << >>, sess.sessionHandle, fails)
         rcv == Receive(snd.conn, CommandSendRRData, reply)
     IN  IF snd.err
           THEN /\ sess' = [sess EXCEPT !.conn = snd.conn]
                /\ wire' = wire
                /\ sessHist' = Finished("SendRRData", TRUE, TRUE)
         ELSE IF rcv.err
           THEN /\ sess' = [sess EXCEPT !.conn = rcv.conn]
                /\ wire' = wire \o snd.frames
                /\ sessHist' = Finished("SendRRData", TRUE, TRUE)
         ELSE IF reply[1].status # 0
           THEN /\ sess' = sess
                /\ wire' = wire \o snd.frames \o rcv.frames
                /\ sessHist' = Finished("SendRRData", TRUE, FALSE)
         ELSE /\ sess' = sess
              /\ wire' = wire \o snd.frames \o rcv.frames
              /\ sessHist' = Finished("SendRRData",
                                      ParseRRReply(reply[1].data).err,
                                      ParseRRReply(reply[1].data).err)
  /\ SessUnchanged

InitSession ==
  /\ sess = SessInit
  /\ wire = << >>
  /\ sessHist = SessHistInit
  /\ LcIdle
  /\ CdIdle
  /\ AlIdle
  /\ ClIdle
  /\ MrIdle
  /\ SrvIdle
  /\ CmIdle
  /\ AoIdle
  /\ RtInit([c \in ConnIDs |-> {IOConnection(c, 1, 0, FALSE, TRUE, <<100>>, 0, TRUE, TRUE)}])

NextSession ==
  \/ \E f \in BOOLEAN, r \in {Nil} \cup { << x >> : x \in RegisterReplies } :
       Register(f, r)
  \/ \E f \in BOOLEAN : Unregister(f)
  \/ Close
  \/ \E f \in BOOLEAN, r \in {Nil} \cup { << x >> : x \in RRReplies } :
       SendRRData(f, r)

SpecSession ==
  InitSession /\ [][NextSession]_vars

\* the positions before i where Register read a reply with status success
RegisteredBefore(i) ==
  { j \in 1..(i - 1) : /\ wire[j].dir = "in"
                       /\ wire[j].cmd = CommandRegisterSession
                       /\ wire[j].status = 0 }

LastOf(js) ==
  CHOOSE j \in js : \A k \in js : k <= j

\* C23: after a successful Register, every SendRRData and UnregisterSession
\* frame the session sends carries the session handle of the (latest)
\* RegisterSession reply header.
C23_HandleEchoed ==
  \A i \in 1..Len(wire) :
    ( /\ wire[i].dir = "out"
      /\ wire[i].cmd \in {CommandSendRRData, CommandUnregisterSession}
      /\ RegisteredBefore(i) # {} )
      => wire[i].handle = wire[LastOf(RegisteredBefore(i))].handle

\* two registrations answered with different handles, then a SendRRData and
\* an UnregisterSession frame that both carry the second handle
C23_Witness ==
  /\ Len(wire) = 6
  /\ wire[2].handle = 7 /\ wire[2].status = 0
  /\ wire[4].handle = 9 /\ wire[4].status = 0
  /\ wire[5].cmd = CommandSendRRData /\ wire[5].handle = 9
  /\ wire[6].cmd = CommandUnregisterSession /\ wire[6].handle = 9

\* C24: a SendRRData frame goes on the wire only after a Register that
\* succeeded and before any Unregister that follows it.
C24_RequestsOnlyWhileRegistered ==
  \A i \in 1..Len(wire) :
    (wire[i].dir = "out" /\ wire[i].cmd = CommandSendRRData)
      => \E j \in RegisteredBefore(i) :
           \A k \in (j + 1)..(i - 1) :
             ~(wire[k].dir = "out" /\ wire[k].cmd = CommandUnregisterSession)

\* C25: once an operation of the session ended in a transport error, every
\* later Register, Unregister and SendRRData on it returns an error.
C25_UnusableAfterTransportError ==
  [][ ( /\ sessHist.failed
        /\ sessHist'.ops # sessHist.ops
        /\ sessHist'.op # "Close" )
      => sessHist'.err ]_vars

\* ------------------------------------------------------------------------
\* Forward_Open requests that are structurally invalid
\* ------------------------------------------------------------------------
\* the fixed fields are cut short, or fewer path bytes follow than the path
\* size (in words) announces
StructurallyInvalid(data, large) ==
  LET fixed == IF large THEN 40 ELSE 36
  IN  \/ Len(data) < fixed
      \/ Len(data) - fixed < 2 * data[fixed]

\* the response the message router builds from what HandleRequest returned
RouterAnswer(p) ==
  ObjectResponse(cmProc[p].service,
                 [ data |-> IF cmProc[p].resp = Nil THEN << >> ELSE cmProc[p].resp[1],
                   err  |-> cmProc[p].err ])

\* C26: a Forward_Open or Large_Forward_Open whose request is structurally
\* invalid is answered with general status ConnectionFailure (0x01).
C26_InvalidOpenIsConnectionFailure ==
  \A p \in DOMAIN cmProc :
    ( /\ cmProc[p].service \in {ServiceForwardOpen, ServiceLargeForwardOpen}
      /\ StructurallyInvalid(cmProc[p].data,
                             cmProc[p].service = ServiceLargeForwardOpen)
      /\ cmProc[p].pc = "idle" )
      => RouterAnswer(p).GeneralStatus = StatusConnectionFailure

\* ------------------------------------------------------------------------
\* Message-router request codec: MessageRouterRequest.Encode (part_006:16-33)
\* against the request parser of the target (part_001:172-192)
\* ------------------------------------------------------------------------
MaxPathLen == 3

RECURSIVE PathsOfLen(_)
PathsOfLen(n) ==
  IF n = 0 THEN { << >> }
  ELSE { <<b>> \o p : b \in {32, 4}, p \in PathsOfLen(n - 1) }

CodecPaths ==
  UNION { PathsOfLen(n) : n \in 0..MaxPathLen }

CodecRequests ==
  { MessageRouterRequest(sv, p, d) :
      sv \in {14, 16}, p \in CodecPaths, d \in { << >>, <<9>>, <<1, 2>> } }

CodecUnchanged ==
  UNCHANGED << rtVars, mrVars, srvVars, cmVars, aoVars, lcVars, ssVars, alVars, clVars >>

\* the originator encodes the request, the target parses the bytes
RoundTrip ==
  /\ codecOut = << >>
  /\ codecOut' = << DecodeRequest(EncodeRequest(codecIn)) >>
  /\ UNCHANGED codecIn
  /\ CodecUnchanged

InitCodec ==
  /\ codecIn \in CodecRequests
  /\ codecOut = << >>
  /\ LcIdle
  /\ SsIdle
  /\ AlIdle
  /\ ClIdle
  /\ MrIdle
  /\ SrvIdle
  /\ CmIdle
  /\ AoIdle
  /\ RtInit([c \in ConnIDs |-> {IOConnection(c, 1, 0, FALSE, TRUE, <<100>>, 0, TRUE, TRUE)}])

NextCodec ==
  RoundTrip

SpecCodec ==
  InitCodec /\ [][NextCodec]_vars

\* C27: parsing the bytes of an encoded request yields the same service, the
\* same path bytes and the same data bytes, for paths of any byte length.
C27_RequestRoundTrip ==
  codecOut # << >>
    => /\ codecOut[1].ok
       /\ codecOut[1].req = codecIn

\* ------------------------------------------------------------------------
\* Server.Start / Server.acceptLoop  (part_001:29-48) and the order of the
\* replies of handleConnection
\* ------------------------------------------------------------------------
MaxAcceptErrs == 2

MaxServed == 2

CtxOther ==
  <<1, 2, 3, 4, 5, 6, 7, 8>>

\* a register, an explicit request, an unsupported command and an unregister
ListenerFrames ==
  { Frame(CommandRegisterSession, 0, CtxZero, <<1, 0, 0, 0>>),
    Frame(CommandSendRRData, StaticSessionHandle, CtxPattern,
          RRPayload(GetAttr(<<32, 4, 36, 1, 48, 3>>))),
    Frame(65535, 0, CtxOther, << >>),
    Frame(CommandUnregisterSession, StaticSessionHandle, CtxZero, << >>) }

ListenerUnchanged ==
  UNCHANGED << rtVars, mrVars, cmVars, aoVars, lcVars, ssVars, cdVars, clVars >>

\* Server.Start: net.Listen succeeded, "go s.acceptLoop(ln)"
ServerStart ==
  /\ listener = "none"
  /\ listener' = "open"
  /\ acceptPc' = "accept"
  /\ UNCHANGED << accepted, acceptErrs, tcpLog, srvVars >>
  /\ ListenerUnchanged

\* the listener stops working (it is closed, or the socket fails for good)
ListenerFails ==
  /\ listener = "open"
  /\ listener' = "failed"
  /\ UNCHANGED << acceptPc, accepted, acceptErrs, tcpLog, srvVars >>
  /\ ListenerUnchanged

\* acceptLoop: ln.Accept() returned a connection, "go s.handleConnection(conn)"
Accept(k) ==
  /\ acceptPc = "accept"
  /\ listener = "open"
  /\ k \notin accepted
  /\ accepted' = accepted \cup {k}
  /\ UNCHANGED << listener, acceptPc, acceptErrs, tcpLog, srvVars >>
  /\ ListenerUnchanged

\* acceptLoop, lines 42-45: where the loop goes when Accept returned an error
AfterAcceptError ==
  "accept"

\* acceptLoop: ln.Accept() on the failed listener returned an error
AcceptError ==
  /\ acceptPc = "accept"
  /\ listener = "failed"
  /\ acceptErrs < MaxAcceptErrs
  /\ acceptErrs' = acceptErrs + 1
  /\ acceptPc' = AfterAcceptError
  /\ UNCHANGED << listener, accepted, tcpLog, srvVars >>
  /\ ListenerUnchanged

\* what one iteration of handleConnection puts on the wire
WireRepliesTwice(conn) ==
  IF conn.replied
    THEN << [ ev |-> "rep", cmd |-> Uint16(conn.reply[1].hdr, 0),
              ctx |-> Slice(conn.reply[1].hdr, 12, 20) ],
            [ ev |-> "rep", cmd |-> Uint16(conn.reply[1].hdr, 0),
              ctx |-> Slice(conn.reply[1].hdr, 12, 20) ] >>
    ELSE << >>

WireReplies(conn) ==
  IF conn.replied
    THEN << [ ev |-> "rep", cmd |-> Uint16(conn.reply[1].hdr, 0),
              ctx |-> Slice(conn.reply[1].hdr, 12, 20) ] >>
    ELSE << >>

\* the requests a connection has read so far
Served(k) ==
  Cardinality({ i \in 1..Len(tcpLog[k]) : tcpLog[k][i].ev = "req" })

\* one iteration of the handler of an accepted connection
Serve(k, f, writeFails) ==
  /\ k \in accepted
  /\ Served(k) < MaxServed
  /\ ServeFrame(k, f, writeFails)
  /\ tcpLog' = [tcpLog EXCEPT ![k] =
       @ \o << [ ev |-> "req", cmd |-> Uint16(f.hdr, 0),
                 ctx |-> Slice(f.hdr, 12, 20) ] >>
         \o WireReplies(tcp'[k])]
  /\ UNCHANGED << listener, acceptPc, accepted, acceptErrs, lcVars, ssVars, cdVars, clVars >>

\* the peer of an accepted connection closes it
ServePeerClose(k) ==
  /\ k \in accepted
  /\ PeerClose(k)

InitListener ==
  /\ listener = "none"
  /\ acceptPc = "none"
  /\ accepted = {}
  /\ acceptErrs = 0
  /\ tcpLog = [k \in TcpConns |-> << >>]
  /\ tcp = [k \in TcpConns |-> TcpInit]
  /\ LcIdle
  /\ SsIdle
  /\ CdIdle
  /\ ClIdle
  /\ MrIdle
  /\ CmIdle
  /\ AoIdle
  /\ RtInit([c \in ConnIDs |-> {IOConnection(c, 1, 0, FALSE, TRUE, <<100>>, 0, TRUE, TRUE)}])

NextListener ==
  \/ ServerStart
  \/ ListenerFails
  \/ \E k \in TcpConns : Accept(k)
  \/ AcceptError
  \/ \E k \in TcpConns, f \in ListenerFrames, w \in BOOLEAN : Serve(k, f, w)
  \/ \E k \in TcpConns : ServePeerClose(k)

SpecListener ==
  InitListener /\ [][NextListener]_vars

\* C28: on each TCP connection every reply written directly follows the
\* request it answers (same command, same sender context): at most one reply
\* per request, in request order.
C28_RepliesInRequestOrder ==
  \A k \in DOMAIN tcpLog :
    \A i \in 1..Len(tcpLog[k]) :
      tcpLog[k][i].ev = "rep"
        => /\ i > 1
           /\ tcpLog[k][i - 1].ev = "req"
           /\ tcpLog[k][i - 1].cmd = tcpLog[k][i].cmd
           /\ tcpLog[k][i - 1].ctx = tcpLog[k][i].ctx

\* both connections were served while the other was open; connection 1 got
\* two requests with different sender contexts and a reply to each
C28_Witness ==
  /\ Len(tcpLog[1]) = 4
  /\ tcpLog[1][2].ev = "rep" /\ tcpLog[1][4].ev = "rep"
  /\ tcpLog[1][2].ctx # tcpLog[1][4].ctx
  /\ Len(tcpLog[2]) >= 2
  /\ tcpLog[2][2].ev = "rep"

\* C30: after Accept has failed, the accept loop has exited: Accept is not
\* called on the failed listener again.
C30_AcceptLoopExitsOnError ==
  /\ acceptErrs <= 1
  /\ (acceptErrs = 1 => acceptPc = "exited")

\* ------------------------------------------------------------------------
\* handleConnection and the session handle of a request  (part_001:66-129)
\* ------------------------------------------------------------------------
\* C38: on a registered connection a SendRRData or SendUnitData frame whose
\* session handle differs from the handle assigned on RegisterSession is not
\* dispatched to the router and is answered with a non-zero status.
C38_ForeignHandleRejected ==
  \A k \in TcpConns :
    ( /\ HasRequest(k)
      /\ tcp[k].wasRegistered
      /\ ReqCommand(k) \in {CommandSendRRData, CommandSendUnitData}
      /\ Uint32(tcp[k].req, 4) # tcp[k].sessionHandle )
      => /\ ~tcp[k].dispatched
         /\ tcp[k].replied => Uint32(tcp[k].reply[1].hdr, 8) # 0

\* ------------------------------------------------------------------------
\* handlePacket against the watchdog and RemoveConnection  (runtime.go)
\* ------------------------------------------------------------------------
\* C36: the payload of a received frame is written to an assembly only if
\* the frame's connection is in the connection map at the moment of the
\* write; a frame of a removed connection never modifies an assembly.
C36_WriteOnlyWhilePresent ==
  [][ (recvPc = "apply" /\ asmData' # asmData) => recvConn \in connections ]_vars

\* ------------------------------------------------------------------------
\* Frames of Scheduler.sendPacket delivered to Runtime.handlePacket
\* ------------------------------------------------------------------------
\* producers on the peer node: the connection as sendPacket sees it after
\* counting, and the data of its assembly
LoopSources ==
  { [ conn |-> IOConnection(c, 1, seq, runIdle, TRUE, <<100>>, 0, TRUE, FALSE),
      data |-> data ] :
      c \in ConnIDs, seq \in {1, 65535}, runIdle \in BOOLEAN,
      data \in { <<5>>, <<3, 4>> } }

LoopFrames ==
  { BuildFrame(src.conn, src.data) : src \in LoopSources }

NextLoopback ==
  \/ Start
  \/ \E c \in ConnIDs : AddConnection(c)
  \/ \E c \in ConnIDs : RemoveConnection(c)
  \/ \E d \in LoopFrames : RecvPacket(d)
  \/ RecvStamp
  \/ RecvApply

SpecLoopback ==
  InitIngress /\ [][NextLoopback]_vars

\* C37: a frame the producer scheduler built from an assembly of N bytes,
\* handled for a consumer connection with the same connection id and the same
\* RunIdleHeader setting bound to an N-byte assembly, leaves the consumer's
\* assembly data equal to the producer's assembly data.
C37_ProducerFrameApplied ==
  [][ (recvPc = "apply" /\ recvPc' = "idle" /\ io[recvConn].Assembly # << >>)
        => \A src \in LoopSources :
             ( /\ src.conn.ConnectionID = recvConn
               /\ src.conn.RunIdleHeader = io[recvConn].RunIdleHeader
               /\ Len(src.data) = Len(asmData[io[recvConn].Assembly[1]])
               /\ ParsePacket(BuildFrame(src.conn, src.data)).payload = recvPayload )
               => asmData'[io[recvConn].Assembly[1]] = src.data ]_vars

\* ------------------------------------------------------------------------
\* Client.ListTags  (pkg/client/discovery.go)
\* ------------------------------------------------------------------------
MaxInstances == 3

\* the target side is not driven by the client-side specifications
TargetIdle ==
  /\ RtInit([c \in ConnIDs |-> {IOConnection(c, 1, 0, FALSE, TRUE, <<100>>, 0, TRUE, TRUE)}])
  /\ MrIdle
  /\ SrvIdle
  /\ CmIdle
  /\ AoIdle
  /\ LcIdle
  /\ SsIdle
  /\ CdIdle
  /\ AlIdle

TargetUnchanged ==
  UNCHANGED << rtVars, mrVars, srvVars, cmVars, aoVars, lcVars, ssVars, cdVars, alVars >>

\* what SendCIPRequest and the decoding of its response can come to:
\* a transport error, status 0x16 or 0x05, another CIP status, a response
\* that does not decode, a symbol with an empty name, a symbol
InstanceOutcomes ==
  { "transport", "absent", "status", "decode", "unnamed", "symbol" }

LtInit ==
  [ pc |-> "idle", maxInstance |-> 0, id |-> 0, sent |-> << >>,
    allSymbols |-> << >>, ret |-> "none" ]

\* lines 23-35: the request for the class attributes; it fails (transport
\* error, CIP status, decoding) or yields maxInstance
ListTagsClass(ok, maxInstance) ==
  /\ lt.pc = "idle"
  /\ lt' = IF ok
             THEN [lt EXCEPT !.pc = "loop", !.maxInstance = maxInstance, !.id = 1]
             ELSE [lt EXCEPT !.pc = "done", !.ret = "err"]
  /\ UNCHANGED << rc, tm, tsub >>
  /\ TargetUnchanged

\* lines 50-81, one iteration: where the loop goes after the request for
\* instance id came to the given outcome
AfterInstance(l, outcome) ==
  [l EXCEPT !.id = @ + 1]

ListTagsInstance(outcome) ==
  /\ lt.pc = "loop"
  /\ lt.id <= lt.maxInstance
  /\ LET asked == [lt EXCEPT !.sent = Append(@, [id |-> lt.id, outcome |-> outcome]),
                             !.allSymbols = IF outcome = "symbol"
                                              THEN Append(@, lt.id) ELSE @]
     IN  lt' = AfterInstance(asked, outcome)
  /\ UNCHANGED << rc, tm, tsub >>
  /\ TargetUnchanged

\* line 83: return allSymbols, nil
ListTagsReturn ==
  /\ lt.pc = "loop"
  /\ lt.id > lt.maxInstance
  /\ lt' = [lt EXCEPT !.pc = "done", !.ret = "ok"]
  /\ UNCHANGED << rc, tm, tsub >>
  /\ TargetUnchanged

InitListTags ==
  /\ lt = LtInit
  /\ rc = << >>
  /\ tm = << >>
  /\ tsub = << >>
  /\ TargetIdle

NextListTags ==
  \/ \E ok \in BOOLEAN, n \in 0..MaxInstances : ListTagsClass(ok, n)
  \/ \E o \in InstanceOutcomes : ListTagsInstance(o)
  \/ ListTagsReturn

SpecListTags ==
  InitListTags /\ [][NextListTags]_vars

\* C31: during ListTags a transport failure on a per-instance request ends
\* the enumeration: no request for a later instance is sent after it.
C31_TransportFailureEndsEnumeration ==
  \A i \in 1..Len(lt.sent) :
    lt.sent[i].outcome = "transport" => i = Len(lt.sent)

\* ------------------------------------------------------------------------
\* ReconnectingClient  (pkg/client/reconnect.go)
\* ------------------------------------------------------------------------
MaxCalls == 2

MaxClients == 4

\* WithMaxRetries: -1 for infinite retries
RetrySettings ==
  {-1, 0, 1, 2}

\* NewReconnectingClient: clients are numbered in the order the factory made
\* them, 0 is nil; autoConnect made client 1, or failed or was disabled
RcInit(maxRetries, connected) ==
  [ client     |-> IF connected THEN 1 ELSE 0,
    closed     |-> FALSE,
    made       |-> IF connected THEN 1 ELSE 0,
    dead       |-> {},        \* the clients Close was called on
    maxRetries |-> maxRetries,
    pc         |-> "idle",    \* position of the caller in executeWithRetry
    i          |-> 0,
    cur        |-> 0,         \* the local "client"
    ret        |-> "none",    \* how the last call returned
    calls      |-> 0,         \* calls that have returned
    attempts   |-> << >>,     \* the clients op was invoked on in this call
    connFailed |-> FALSE,     \* the factory failed during this call
    sawClosed  |-> FALSE,     \* getClient found rc.closed during this call
    opOk       |-> FALSE,     \* an operation has succeeded at some time
    afterClose |-> FALSE ]    \* this call began after Close had returned

\* line 176: the loop condition
LoopContinuesBounded(i, maxRetries) ==
  i <= maxRetries

LoopContinues(i, maxRetries) ==
  maxRetries < 0 \/ i <= maxRetries

\* the loop's i++ (with the fold at MaxInt32 of lines 218-220); with
\* maxRetries < 0 no test reads i, and it is kept at 0
NextIndex(i, maxRetries) ==
  IF maxRetries < 0 THEN 0 ELSE i + 1

\* lines 179-186: getClient failed, "continue"
FailedIteration(r) ==
  [r EXCEPT !.i = NextIndex(r.i, r.maxRetries), !.pc = "test", !.cur = 0]

\* ReadTag / WriteTag enter executeWithRetry
RcCall ==
  /\ rc.pc = "idle"
  /\ rc.calls < MaxCalls
  /\ rc' = [rc EXCEPT !.pc = "test", !.i = 0, !.cur = 0, !.ret = "none",
                      !.attempts = << >>, !.connFailed = FALSE,
                      !.sawClosed = FALSE, !.afterClose = rc.closed]
  /\ UNCHANGED << lt, tm, tsub >>
  /\ TargetUnchanged

\* line 176 and line 223
RcLoopTest ==
  /\ rc.pc = "test"
  /\ rc' = IF LoopContinues(rc.i, rc.maxRetries)
             THEN [rc EXCEPT !.pc = "get"]
             ELSE [rc EXCEPT !.pc = "idle", !.ret = "err", !.calls = @ + 1]
  /\ UNCHANGED << lt, tm, tsub >>
  /\ TargetUnchanged

\* getClient, lines 113-123: under the read lock
RcGetClient ==
  /\ rc.pc = "get"
  /\ rc' = IF rc.closed THEN [FailedIteration(rc) EXCEPT !.sawClosed = TRUE]
           ELSE IF rc.client # 0 THEN [rc EXCEPT !.cur = rc.client, !.pc = "op"]
           ELSE [rc EXCEPT !.pc = "connect"]
  /\ UNCHANGED << lt, tm, tsub >>
  /\ TargetUnchanged

\* getClient, lines 126-140: under the write lock; made: the factory returned
\* a client
RcConnect(made) ==
  /\ rc.pc = "connect"
  /\ made => rc.made < MaxClients
  /\ rc' = IF rc.closed THEN [FailedIteration(rc) EXCEPT !.sawClosed = TRUE]
           ELSE IF rc.client # 0 THEN [rc EXCEPT !.cur = rc.client, !.pc = "op"]
           ELSE IF made
             THEN [rc EXCEPT !.made = @ + 1, !.client = rc.made + 1,
                             !.cur = rc.made + 1, !.pc = "op"]
           ELSE [FailedIteration(rc) EXCEPT !.connFailed = TRUE]
  /\ UNCHANGED << lt, tm, tsub >>
  /\ TargetUnchanged

\* lines 189-193: op(client); an operation on a closed client fails
RcOp(ok) ==
  /\ rc.pc = "op"
  /\ ok => rc.cur \notin rc.dead
  /\ rc' = IF ok
             THEN [rc EXCEPT !.attempts = Append(@, rc.cur), !.pc = "idle",
                             !.ret = "ok", !.calls = @ + 1, !.opOk = TRUE]
             ELSE [rc EXCEPT !.attempts = Append(@, rc.cur), !.pc = "inval"]
  /\ UNCHANGED << lt, tm, tsub >>
  /\ TargetUnchanged

\* lines 203-211: close and drop the client the attempt used
InvalidateKeep(r) ==
  r

Invalidate(r) ==
  IF r.client = r.cur /\ r.client # 0
    THEN [r EXCEPT !.dead = @ \cup {r.client}, !.client = 0]
    ELSE r

RcInvalidate ==
  /\ rc.pc = "inval"
  /\ rc' = [Invalidate(rc) EXCEPT !.i = NextIndex(rc.i, rc.maxRetries),
                                  !.pc = "test"]
  /\ UNCHANGED << lt, tm, tsub >>
  /\ TargetUnchanged

\* ReconnectingClient.Close, under the write lock
RcClose ==
  /\ ~rc.closed
  /\ rc' = [rc EXCEPT !.closed = TRUE,
                      !.dead = IF rc.client # 0 THEN @ \cup {rc.client} ELSE @,
                      !.client = 0]
  /\ UNCHANGED << lt, tm, tsub >>
  /\ TargetUnchanged

InitReconnect ==
  /\ rc \in { RcInit(n, c) : n \in RetrySettings, c \in BOOLEAN }
  /\ lt = << >>
  /\ tm = << >>
  /\ tsub = << >>
  /\ TargetIdle

NextReconnect ==
  \/ RcCall
  \/ RcLoopTest
  \/ RcGetClient
  \/ \E made \in BOOLEAN : RcConnect(made)
  \/ \E ok \in BOOLEAN : RcOp(ok)
  \/ RcInvalidate
  \/ RcClose

SpecReconnect ==
  InitReconnect /\ [][NextReconnect]_vars

\* the goroutine of the caller is scheduled
SpecReconnectFair ==
  /\ SpecReconnect
  /\ WF_vars(RcLoopTest)
  /\ WF_vars(RcGetClient)
  /\ WF_vars(\E made \in BOOLEAN : RcConnect(made))
  /\ WF_vars(\E ok \in BOOLEAN : RcOp(ok))
  /\ WF_vars(RcInvalidate)

\* a call has returned an error although the operation never succeeded
FailedCall ==
  /\ rc.pc = "idle"
  /\ rc.ret = "err"
  /\ rc.maxRetries >= 0
  /\ ~rc.opOk

\* N+1 attempts, each on a client of its own that is closed afterwards
FreshAttempts ==
  /\ Len(rc.attempts) = rc.maxRetries + 1
  /\ \A a, b \in 1..Len(rc.attempts) : a # b => rc.attempts[a] # rc.attempts[b]
  /\ \A a \in 1..Len(rc.attempts) : rc.attempts[a] \in rc.dead

\* C32 as stated: with MaxRetries = N >= 0 and an operation that fails on
\* every attempt, a call makes exactly N+1 attempts, each on a newly created
\* client that is closed before the next attempt, and returns an error.
C32_AlwaysFreshAttempts ==
  FailedCall => FreshAttempts

\* C32, amended: the same when every connect of the call succeeded and the
\* ReconnectingClient was not closed during the call.
C32_FreshAttemptsWhenConnected ==
  /\ (FailedCall /\ ~rc.connFailed /\ ~rc.sawClosed) => FreshAttempts
  /\ (rc.maxRetries >= 0 /\ ~rc.opOk) => Len(rc.attempts) <= rc.maxRetries + 1

\* with MaxRetries = 2 a call failed after attempts on three clients
C32_Witness ==
  /\ FailedCall
  /\ ~rc.connFailed /\ ~rc.sawClosed
  /\ rc.maxRetries = 2
  /\ Len(rc.attempts) = 3
  /\ rc.dead = {1, 2, 3}

\* C33: with MaxRetries = -1 a call never returns an error, and it returns
\* success as soon as an attempt succeeds.
C33_InfiniteRetry ==
  [][ rc.maxRetries = -1
        => /\ rc'.ret # "err"
           /\ (rc.pc = "op" /\ rc'.pc # "op")
                => \/ rc'.pc = "idle" /\ rc'.ret = "ok"
                   \/ rc'.pc = "inval" /\ rc'.ret = "none" ]_vars

\* a call with MaxRetries = -1 succeeded on its third attempt
C33_Witness ==
  /\ rc.maxRetries = -1
  /\ rc.pc = "idle"
  /\ rc.ret = "ok"
  /\ Len(rc.attempts) = 3

\* C40: a call made after Close has returned terminates with an error, for
\* every MaxRetries setting.
C40_CallAfterCloseReturns ==
  (rc.pc # "idle" /\ rc.afterClose) ~> (rc.pc = "idle" /\ rc.ret = "err")

\* ------------------------------------------------------------------------
\* TagMonitor and its subscriptions  (part_002)
\* ------------------------------------------------------------------------
MaxPolls == 2

\* WithEventBuffer: the capacity of the events channel
EventBuffer == 1

\* the ids AddTag can hand out (m.nextID counts from 1)
SubIDs ==
  {1, 2}

\* NewTagMonitor
TmInit ==
  [ closed    |-> FALSE,
    stopCh    |-> FALSE,     \* m.stopCh is closed
    subs      |-> {},        \* the keys of m.subs
    nextID    |-> 0,
    events    |-> << >>,     \* the buffer of m.events: subscription ids
    evClosed  |-> FALSE,     \* m.events is closed
    wg        |-> 0,
    closePc   |-> "none",    \* position of the Close call
    closeTodo |-> {},        \* Close's local subs still to stop
    closeCur  |-> 0,
    panicked  |-> FALSE ]    \* a send on the closed channel has happened

\* a subscription id before AddTag has made it
SubInit ==
  [ pc        |-> "none",    \* position of the goroutine of run()
    immediate |-> FALSE,
    stopCh    |-> FALSE,     \* s.stopCh is closed
    stopOnce  |-> "none",    \* s.stopOnce: "none", "running", "done"
    stopCall  |-> "none",    \* position of the TagSubscription.Stop call
    polls     |-> 0 ]        \* ReadTag calls made

\* close(s.doneCh) has happened
DoneClosed(id) ==
  tsub[id].pc \in {"exited", "gone"}

TmUnchangedOthers ==
  /\ UNCHANGED << lt, rc >>
  /\ TargetUnchanged

\* AddTag, lines 151-160: register under the lock
AddTagRegister(immediate) ==
  /\ ~tm.closed
  /\ tm.nextID + 1 \in SubIDs
  /\ tm' = [tm EXCEPT !.nextID = @ + 1, !.subs = @ \cup {tm.nextID + 1}]
  /\ tsub' = [tsub EXCEPT ![tm.nextID + 1] =
                [SubInit EXCEPT !.pc = "new", !.immediate = immediate]]
  /\ TmUnchangedOthers

\* AddTag, lines 162-168: wg.Add(1), start the goroutine, return the handle
AddTagSpawn(id) ==
  /\ tsub[id].pc = "new"
  /\ tm' = [tm EXCEPT !.wg = @ + 1]
  /\ tsub' = [tsub EXCEPT ![id].pc = IF tsub[id].immediate THEN "poll" ELSE "select"]
  /\ TmUnchangedOthers

\* run, line 291: the ticker case of the select is taken
SubTick(id) ==
  /\ tsub[id].pc = "select"
  /\ tsub[id].polls < MaxPolls
  /\ tsub' = [tsub EXCEPT ![id].pc = "poll"]
  /\ UNCHANGED tm
  /\ TmUnchangedOthers

\* run, lines 293-296: a stop case of the select is taken, doneCh is closed
SubExit(id) ==
  /\ tsub[id].pc = "select"
  /\ tsub[id].stopCh \/ tm.stopCh
  /\ tsub' = [tsub EXCEPT ![id].pc = "exited"]
  /\ UNCHANGED tm
  /\ TmUnchangedOthers

\* AddTag, line 165: m.wg.Done()
SubWgDone(id) ==
  /\ tsub[id].pc = "exited"
  /\ tsub' = [tsub EXCEPT ![id].pc = "gone"]
  /\ tm' = [tm EXCEPT !.wg = @ - 1]
  /\ TmUnchangedOthers

\* poll, line 310: reader.ReadTag
SubPoll(id) ==
  /\ tsub[id].pc = "poll"
  /\ tsub' = [tsub EXCEPT ![id].pc = "emit1", ![id].polls = @ + 1]
  /\ UNCHANGED tm
  /\ TmUnchangedOthers

\* emit, lines 185-189: the non-blocking test of m.stopCh
SubEmitCheck(id) ==
  /\ tsub[id].pc = "emit1"
  /\ tsub' = [tsub EXCEPT ![id].pc = IF tm.stopCh THEN "select" ELSE "emit2"]
  /\ UNCHANGED tm
  /\ TmUnchangedOthers

\* emit, line 193: the send case is taken (a send on a closed channel panics)
SubEmitSend(id) ==
  /\ tsub[id].pc = "emit2"
  /\ tm.evClosed \/ Len(tm.events) < EventBuffer
  /\ tm' = IF tm.evClosed
             THEN [tm EXCEPT !.panicked = TRUE]
             ELSE [tm EXCEPT !.events = Append(@, id)]
  /\ tsub' = [tsub EXCEPT ![id].pc = "select"]
  /\ TmUnchangedOthers

\* emit, line 192: the m.stopCh case is taken
SubEmitAbort(id) ==
  /\ tsub[id].pc = "emit2"
  /\ tm.stopCh
  /\ tsub' = [tsub EXCEPT ![id].pc = "select"]
  /\ UNCHANGED tm
  /\ TmUnchangedOthers

\* a consumer receives from Wait()
Receive1 ==
  /\ tm.events # << >>
  /\ tm' = [tm EXCEPT !.events = Tail(@)]
  /\ UNCHANGED tsub
  /\ TmUnchangedOthers

\* TagSubscription.Stop -> removeSubscription, lines 172-177
StopRemove(id) ==
  /\ tsub[id].pc \notin {"none", "new"}
  /\ tsub[id].stopCall = "none"
  /\ tm' = [tm EXCEPT !.subs = @ \ {id}]
  /\ tsub' = [tsub EXCEPT ![id].stopCall =
                IF id \in tm.subs THEN "stop" ELSE "returned"]
  /\ TmUnchangedOthers

\* tagSubscription.stop, lines 302-303, called by Stop
StopSignal(id) ==
  /\ tsub[id].stopCall = "stop"
  /\ tsub[id].stopOnce = "none"
  /\ tsub' = [tsub EXCEPT ![id].stopOnce = "running", ![id].stopCh = TRUE,
                          ![id].stopCall = "wait"]
  /\ UNCHANGED tm
  /\ TmUnchangedOthers

\* tagSubscription.stop, line 304: <-s.doneCh, and Stop returns
StopReturn(id) ==
  /\ tsub[id].stopCall = "wait"
  /\ DoneClosed(id)
  /\ tsub' = [tsub EXCEPT ![id].stopOnce = "done", ![id].stopCall = "returned"]
  /\ UNCHANGED tm
  /\ TmUnchangedOthers

\* Close, line 117: close(m.stopCh)
CloseBegin ==
  /\ tm.closePc = "none"
  /\ tm' = [tm EXCEPT !.stopCh = TRUE, !.closePc = "lock"]
  /\ UNCHANGED tsub
  /\ TmUnchangedOthers

\* Close, lines 119-126: under the lock
CloseCollect ==
  /\ tm.closePc = "lock"
  /\ tm' = [tm EXCEPT !.closeTodo = tm.subs, !.closed = TRUE, !.subs = {},
                      !.closePc = "stopping"]
  /\ UNCHANGED tsub
  /\ TmUnchangedOthers

\* Close, line 129: sub.stop() closes s.stopCh
CloseStopSignal(id) ==
  /\ tm.closePc = "stopping"
  /\ id \in tm.closeTodo
  /\ tsub[id].stopOnce = "none"
  /\ tsub' = [tsub EXCEPT ![id].stopOnce = "running", ![id].stopCh = TRUE]
  /\ tm' = [tm EXCEPT !.closePc = "waitdone", !.closeCur = id]
  /\ TmUnchangedOthers

\* Close, line 129: sub.stop() has received from s.doneCh
CloseStopReturn ==
  /\ tm.closePc = "waitdone"
  /\ DoneClosed(tm.closeCur)
  /\ tsub' = [tsub EXCEPT ![tm.closeCur].stopOnce = "done"]
  /\ tm' = [tm EXCEPT !.closePc = "stopping", !.closeTodo = @ \ {tm.closeCur},
                      !.closeCur = 0]
  /\ TmUnchangedOthers

\* Close, lines 128-132: when close(m.events) may run
EventsMayCloseEarly(m) ==
  m.closePc = "stopping"

EventsMayClose(m) ==
  /\ m.closePc = "stopping"
  /\ m.closeTodo = {}
  /\ m.wg = 0

\* Close, line 133: close(m.events)
CloseEvents ==
  /\ EventsMayClose(tm)
  /\ tm' = [tm EXCEPT !.evClosed = TRUE, !.closePc = "done"]
  /\ UNCHANGED tsub
  /\ TmUnchangedOthers

InitMonitor ==
  /\ tm = TmInit
  /\ tsub = [id \in SubIDs |-> SubInit]
  /\ lt = << >>
  /\ rc = << >>
  /\ TargetIdle

SubStep(id) ==
  \/ SubTick(id)
  \/ SubExit(id)
  \/ SubWgDone(id)
  \/ SubPoll(id)
  \/ SubEmitCheck(id)
  \/ SubEmitSend(id)
  \/ SubEmitAbort(id)

NextMonitor ==
  \/ \E im \in BOOLEAN : AddTagRegister(im)
  \/ \E id \in SubIDs : AddTagSpawn(id)
  \/ \E id \in SubIDs : SubStep(id)
  \/ Receive1
  \/ \E id \in SubIDs : StopRemove(id)
  \/ \E id \in SubIDs : StopSignal(id)
  \/ \E id \in SubIDs : StopReturn(id)
  \/ CloseBegin
  \/ CloseCollect
  \/ \E id \in SubIDs : CloseStopSignal(id)
  \/ CloseStopReturn
  \/ CloseEvents

SpecMonitor ==
  InitMonitor /\ [][NextMonitor]_vars

\* the goroutines of the subscriptions and of the Stop callers are scheduled;
\* nobody has to receive from Wait() or to call Close
SpecMonitorFair ==
  /\ SpecMonitor
  /\ \A id \in SubIDs :
       /\ WF_vars(AddTagSpawn(id))
       /\ WF_vars(SubExit(id))
       /\ WF_vars(SubWgDone(id))
       /\ WF_vars(SubPoll(id))
       /\ WF_vars(SubEmitCheck(id))
       /\ WF_vars(SubEmitSend(id))
       /\ WF_vars(SubEmitAbort(id))
       /\ WF_vars(StopSignal(id))
       /\ WF_vars(StopReturn(id))

\* C34: once Stop has returned, the subscription performs no further poll and
\* sends no further event.
C34_QuietAfterStop ==
  [][ \A id \in SubIDs :
        tsub[id].stopCall = "returned"
          => /\ tsub'[id].polls = tsub[id].polls
             /\ ~(tsub[id].pc = "emit2" /\ tsub'[id].pc = "select"
                  /\ Len(tm'.events) > Len(tm.events)) ]_vars

\* C35: the event channel is closed only after all subscriptions have
\* stopped: no event is ever sent on the channel after it has been closed.
C35_NoSendAfterClose ==
  /\ ~tm.panicked
  /\ tm.evClosed => \A id \in SubIDs : tsub[id].pc \in {"none", "gone"}

\* Close has closed the channel after an AddTag that raced with it, a Stop
\* and a poll that was delivering when Close began
C35_Witness ==
  /\ tm.evClosed
  /\ tsub[1].stopCall = "returned"
  /\ tsub[1].polls = MaxPolls
  /\ tsub[2].pc = "gone"
  /\ tsub[2].stopCall = "none"
  /\ tsub[2].polls >= 1
  /\ Len(tm.events) = EventBuffer

\* C39: Stop always returns, also when the buffer of the event channel is
\* full and no consumer receives.
C39_StopReturns ==
  \A id \in SubIDs :
    (tsub[id].stopCall \in {"stop", "wait"}) ~> (tsub[id].stopCall = "returned")

====
